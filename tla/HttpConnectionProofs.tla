------------------------- MODULE HttpConnectionProofs -------------------------
(***************************************************************************)
(* For everything a client may send, however it is split over calls of     *)
(* read(), and however writev() splits the answer: the properties of       *)
(* HttpConnection.                                                         *)
(***************************************************************************)
EXTENDS HttpConnection, SequenceTheorems, WellFoundedInduction, TLAPS

-----------------------------------------------------------------------------
(* Least and greatest elements.                                             *)

\* A non-empty set of natural numbers has a least element.
LEMMA LeastExists ==
  ASSUME NEW S \in SUBSET Nat, S # {}
  PROVE  \E x \in S : \A y \in S : x <= y
<1> DEFINE R == OpToRel(<, Nat)
<1>1. \A x, y \in Nat : (<<y, x>> \in R) <=> y < x
  BY DEF OpToRel
<1>2. IsWellFoundedOn(R, Nat)
  BY NatLessThanWellFounded
<1> HIDE DEF R
<1>3. PICK x \in S : \A y \in S : ~(<<y, x>> \in R)
  BY <1>2, WFMin
<1>4. \A y \in S : y \in Nat /\ x \in Nat /\ ~(y < x)
  BY <1>1, <1>3
<1> QED
  BY <1>4

\* Min is that element.
LEMMA MinProperties ==
  ASSUME NEW S \in SUBSET Nat, S # {}
  PROVE  Min(S) \in S /\ \A y \in S : Min(S) <= y
<1>1. \E x \in S : \A y \in S : x =< y
  BY LeastExists
<1> QED
  BY <1>1, Zenon DEF Min

\* An element below all others is the least one.
LEMMA MinIs ==
  ASSUME NEW S \in SUBSET Nat, NEW m \in S, \A y \in S : m <= y
  PROVE  Min(S) = m
<1>1. Min(S) \in S /\ Min(S) <= m
  BY MinProperties
<1>2. Min(S) \in Nat /\ m \in Nat /\ m <= Min(S)
  BY <1>1
<1> QED
  BY <1>1, <1>2

\* Among finitely many natural numbers there is a greatest one.
LEMMA MaxProperties ==
  ASSUME NEW S \in SUBSET Nat, S # {}, NEW n \in Nat, \A y \in S : y <= n
  PROVE  Max(S) \in S /\ \A y \in S : Max(S) >= y
<1> DEFINE T == {m \in Nat : \A y \in S : y <= m}
<1>1. PICK m \in T : \A x \in T : m <= x
  <2>1. n \in T /\ T \in SUBSET Nat
    OBVIOUS
  <2> QED
    BY <2>1, LeastExists
<1>2. m \in S
  <2> SUFFICES ASSUME m \notin S PROVE FALSE
    OBVIOUS
  <2>1. \A y \in S : y < m
    BY <1>1
  <2>2. m - 1 \in T
    <3>1. PICK y \in S : y \in Nat /\ y < m
      BY <2>1
    <3>2. m - 1 \in Nat /\ \A x \in S : x <= m - 1
      BY <1>1, <2>1, <3>1
    <3> QED
      BY <3>2
  <2> QED
    BY <1>1, <2>2
<1>3. \E x \in S : \A y \in S : x >= y
  BY <1>1, <1>2
<1> QED
  BY <1>3, Zenon DEF Max

\* An element above all others is the greatest one.
LEMMA MaxIs ==
  ASSUME NEW S \in SUBSET Nat, NEW m \in S, \A y \in S : y <= m
  PROVE  Max(S) = m
<1>1. Max(S) \in S /\ Max(S) >= m
  BY MaxProperties
<1>2. Max(S) \in Nat /\ m \in Nat /\ Max(S) <= m
  BY <1>1
<1> QED
  BY <1>1, <1>2

-----------------------------------------------------------------------------
(* The lines of what has been read, and of what has been read later on.     *)

Extends(b, c) ==
  Len(b) <= Len(c) /\ \A j \in 1 .. Len(b) : c[j] = b[j]

\* Line ends are places in the buffer, before its last one.
LEMMA EolsRange ==
  ASSUME NEW b \in Seq(Byte)
  PROVE  /\ Eols(b) \in SUBSET Nat /\ Blanks(b) \in SUBSET Nat
         /\ \A i \in Eols(b) : i \in Nat /\ 1 <= i /\ i < Len(b)
         /\ \A i \in Blanks(b) : i \in Eols(b)
<1>1. \A i \in Eols(b) : i \in Nat /\ 1 <= i /\ i < Len(b)
  BY DEF Eols
<1>2. \A i \in Blanks(b) : i \in Eols(b)
  BY DEF Blanks
<1> QED
  BY <1>1, <1>2

\* A line starts behind the last line end before its own.
LEMMA LineStartIs ==
  ASSUME NEW b \in Seq(Byte), NEW i \in Nat, NEW k \in Nat,
         k = 0 \/ (k - 1 \in Eols(b) /\ k - 1 < i),
         \A j \in Eols(b) : j < i => j < k
  PROVE  LineStart(b, i) = k
<1> DEFINE S == {0} \cup {j + 1 : j \in {j \in Eols(b) : j < i}}
<1>1. S \in SUBSET Nat
  BY EolsRange
<1>2. \A y \in S : y <= k
  BY EolsRange
<1>3. k \in S
  <2>1. CASE k = 0
    BY <2>1
  <2>2. CASE k - 1 \in Eols(b) /\ k - 1 < i
    <3>1. k = (k - 1) + 1
      OBVIOUS
    <3> QED
      BY <2>2, <3>1
  <2> QED
    BY <2>1, <2>2
<1> HIDE DEF S
<1>4. Max(S) = k
  BY <1>1, <1>2, <1>3, MaxIs
<1> QED
  BY <1>4 DEF LineStart, S

\* It starts in the buffer, and is a sequence of bytes.
LEMMA LineRange ==
  ASSUME NEW b \in Seq(Byte), NEW i \in Eols(b)
  PROVE  /\ LineStart(b, i) \in Nat /\ LineStart(b, i) <= i
         /\ Line(b, i) \in Seq(Byte)
<1> DEFINE S == {0} \cup {j + 1 : j \in {j \in Eols(b) : j < i}}
<1>1. i \in Nat /\ 1 <= i /\ i < Len(b)
  BY EolsRange
<1>2. S \in SUBSET Nat /\ 0 \in S /\ \A y \in S : y <= i
  BY <1>1, EolsRange
<1> HIDE DEF S
<1>3. Max(S) \in S
  BY <1>1, <1>2, MaxProperties
<1>4. LineStart(b, i) \in Nat /\ LineStart(b, i) <= i
  BY <1>2, <1>3 DEF LineStart, S
<1>5. \A j \in LineStart(b, i) + 1 .. i - 1 : b[j] \in Byte
  BY <1>1, <1>4, ElementOfSeq
<1> QED
  BY <1>1, <1>4, <1>5, SubSeqProperties DEF Line

\* A line end is one in every sequence that is the same up to there.
LEMMA EolsSame ==
  ASSUME NEW b \in Seq(Byte), NEW c \in Seq(Byte), NEW m \in Nat, m <= Len(b), m <= Len(c),
         \A j \in 1 .. m : b[j] = c[j], NEW i \in Eols(b), i < m
  PROVE  i \in Eols(c)
<1>1. /\ i \in Nat /\ 1 <= i /\ b[i] = CR /\ b[i + 1] = LF /\ b[1] # LF
  BY DEF Eols
<1>2. Len(c) \in Nat
  BY LenProperties
<1>3. i \in 1 .. m /\ i + 1 \in 1 .. m /\ 1 \in 1 .. m /\ i \in 1 .. Len(c) - 1
  BY <1>1, <1>2
<1>4. c[i] = CR /\ c[i + 1] = LF /\ c[1] # LF
  BY <1>1, <1>3
<1>5. ASSUME NEW j \in 1 .. i - 1 PROVE (c[j] = CR) <=> (c[j + 1] = LF)
  <2>1. j \in 1 .. m /\ j + 1 \in 1 .. m
    BY <1>1
  <2>2. (b[j] = CR) <=> (b[j + 1] = LF)
    BY DEF Eols
  <2>3. b[j] = c[j] /\ b[j + 1] = c[j + 1]
    BY <2>1
  <2> QED
    BY <2>2, <2>3
<1> QED
  BY <1>3, <1>4, <1>5 DEF Eols

\* When more is read, the line ends found so far stay, and new ones come behind.
LEMMA EolsExtended ==
  ASSUME NEW b \in Seq(Byte), NEW c \in Seq(Byte), Extends(b, c)
  PROVE  \A i : i \in Eols(b) <=> i \in Eols(c) /\ i < Len(b)
<1>1. Len(b) \in Nat /\ Len(c) \in Nat /\ Len(b) <= Len(c)
  BY LenProperties DEF Extends
<1>2. \A j \in 1 .. Len(b) : c[j] = b[j]
  BY DEF Extends
<1>3. ASSUME NEW i \in Eols(b) PROVE i \in Eols(c) /\ i < Len(b)
  <2>1. i < Len(b)
    BY EolsRange
  <2> QED
    BY <1>1, <1>2, <2>1, EolsSame
<1>4. ASSUME NEW i \in Eols(c), i < Len(b) PROVE i \in Eols(b)
  <2>1. \A j \in 1 .. Len(b) : c[j] = b[j]
    BY <1>2
  <2> QED
    BY <1>1, <1>4, <2>1, EolsSame
<1> QED
  BY <1>3, <1>4

\* The lines found so far stay what they are.
LEMMA LineExtended ==
  ASSUME NEW b \in Seq(Byte), NEW c \in Seq(Byte), Extends(b, c), NEW i \in Eols(b)
  PROVE  Line(c, i) = Line(b, i)
<1>1. i \in Nat /\ 1 <= i /\ i < Len(b) /\ Len(b) \in Nat /\ Len(c) \in Nat
  BY EolsRange, LenProperties
<1>2. \A j : j \in Eols(b) /\ j < i <=> j \in Eols(c) /\ j < i
  BY <1>1, EolsExtended, EolsRange
<1>3. {j \in Eols(b) : j < i} = {j \in Eols(c) : j < i}
  BY <1>2
<1>4. LineStart(c, i) = LineStart(b, i)
  BY <1>3 DEF LineStart
<1> DEFINE k == LineStart(b, i)
<1>5. k \in Nat /\ k <= i
  BY LineRange
<1> HIDE DEF k
<1>6. \A j \in k + 1 .. i - 1 : c[j] = b[j] /\ b[j] \in Byte
  BY <1>1, <1>5, ElementOfSeq DEF Extends
<1> DEFINE s == SubSeq(b, k + 1, i - 1)
           t == SubSeq(c, k + 1, i - 1)
<1>7. s \in Seq(Byte) /\ t \in Seq(Byte) /\ Len(s) = Len(t)
  BY <1>1, <1>5, <1>6, SubSeqProperties
<1>8. \A j \in 1 .. Len(s) : s[j] = t[j]
  <2>1. Len(s) = IF k + 1 <= i - 1 THEN (i - 1) - (k + 1) + 1 ELSE 0
    BY <1>1, <1>5, <1>6, SubSeqProperties
  <2>2. \A j \in 1 .. (i - 1) - (k + 1) + 1 :
          s[j] = b[(k + 1) + j - 1] /\ t[j] = c[(k + 1) + j - 1]
    BY <1>1, <1>5, <1>6, SubSeqProperties
  <2> HIDE DEF s, t
  <2> QED
    BY <1>1, <1>5, <1>6, <2>1, <2>2
<1> HIDE DEF s, t
<1>9. s = t
  BY <1>7, <1>8, SeqEqual
<1> QED
  BY <1>4, <1>9 DEF Line, s, t, k

\* The first line end stays the first, and the empty lines found so far stay.
LEMMA FirstExtended ==
  ASSUME NEW b \in Seq(Byte), NEW c \in Seq(Byte), Extends(b, c), Eols(b) # {}
  PROVE  /\ Eols(c) # {} /\ Min(Eols(c)) = Min(Eols(b)) /\ Min(Eols(b)) \in Eols(b)
         /\ FirstLine(c) = FirstLine(b)
         /\ \A i : i \in Blanks(b) <=> i \in Blanks(c) /\ i < Len(b)
<1> DEFINE m == Min(Eols(b))
<1>1. m \in Eols(b) /\ \A y \in Eols(b) : m <= y
  BY EolsRange, MinProperties
<1> HIDE DEF m
<1>2. m \in Eols(c) /\ m \in Nat /\ m < Len(b) /\ Len(b) \in Nat
  BY <1>1, EolsExtended, EolsRange, LenProperties
<1>3. \A y \in Eols(c) : m <= y
  <2> SUFFICES ASSUME NEW y \in Eols(c) PROVE m <= y
    OBVIOUS
  <2>1. y \in Nat
    BY EolsRange
  <2>2. CASE y < Len(b)
    BY <1>1, <2>2, EolsExtended
  <2>3. CASE ~(y < Len(b))
    BY <1>2, <2>1, <2>3
  <2> QED
    BY <2>2, <2>3
<1>4. Min(Eols(c)) = m
  BY <1>2, <1>3, EolsRange, MinIs
<1>5. FirstLine(c) = FirstLine(b)
  BY <1>1, <1>4, LineExtended DEF FirstLine, m
<1>6. ASSUME NEW i \in Eols(b) PROVE i \in Blanks(b) <=> i \in Blanks(c)
  BY <1>4, LineExtended, EolsExtended DEF Blanks, m
<1>7. \A i : i \in Blanks(b) => i \in Eols(b)
  BY EolsRange
<1>8. \A i : i \in Blanks(c) /\ i < Len(b) => i \in Eols(b)
  BY EolsRange, EolsExtended
<1>9. \A i \in Eols(b) : i < Len(b)
  BY EolsRange
<1>10. \A i : i \in Blanks(b) <=> i \in Blanks(c) /\ i < Len(b)
  BY <1>6, <1>7, <1>8, <1>9
<1> QED
  BY <1>1, <1>2, <1>4, <1>5, <1>10 DEF m

\* What the headers up to a place say stays what it is.
LEMMA HeadersExtended ==
  ASSUME NEW b \in Seq(Byte), NEW c \in Seq(Byte), Extends(b, c), Eols(b) # {},
         NEW k \in Nat, k <= Len(b)
  PROVE  LengthTo(c, k) = LengthTo(b, k) /\ (LingerTo(c, k) <=> LingerTo(b, k))
<1>1. Len(b) \in Nat
  BY LenProperties
<1>2. \A i : i \in HeadersTo(b, k) <=> i \in HeadersTo(c, k)
  <2>1. \A i : i \in Eols(b) /\ i < k <=> i \in Eols(c) /\ i < k
    BY <1>1, EolsExtended, EolsRange
  <2> QED
    BY <2>1, FirstExtended DEF HeadersTo
<1>3. HeadersTo(c, k) = HeadersTo(b, k)
  BY <1>2
<1>4. \A i \in HeadersTo(b, k) : i \in Eols(b) /\ Line(c, i) = Line(b, i)
  BY LineExtended DEF HeadersTo
<1>5. LengthsTo(c, k) = LengthsTo(b, k)
  BY <1>3, <1>4 DEF LengthsTo
<1>6. LengthTo(c, k) = LengthTo(b, k)
  <2>1. CASE LengthsTo(b, k) = {}
    BY <1>5, <2>1 DEF LengthTo
  <2>2. CASE LengthsTo(b, k) # {}
    <3>1. LengthsTo(b, k) \in SUBSET Nat /\ \A y \in LengthsTo(b, k) : y <= k
      BY EolsRange DEF LengthsTo, HeadersTo
    <3>2. Max(LengthsTo(b, k)) \in HeadersTo(b, k)
      BY <2>2, <3>1, MaxProperties DEF LengthsTo
    <3> QED
      BY <1>4, <1>5, <3>2 DEF LengthTo
  <2> QED
    BY <2>1, <2>2
<1> QED
  BY <1>3, <1>4, <1>6 DEF LingerTo

\* The empty line at the end of the headers stays where it is.
LEMMA BlankExtended ==
  ASSUME NEW b \in Seq(Byte), NEW c \in Seq(Byte), Extends(b, c), Blanks(b) # {}
  PROVE  /\ Eols(b) # {} /\ Blanks(c) # {}
         /\ Min(Blanks(c)) = Min(Blanks(b)) /\ BodyStart(c) = BodyStart(b)
         /\ Min(Blanks(b)) \in Nat /\ Min(Blanks(b)) < Len(b)
<1>1. Eols(b) # {}
  BY EolsRange
<1> DEFINE m == Min(Blanks(b))
<1>2. m \in Blanks(b) /\ \A y \in Blanks(b) : m <= y
  BY EolsRange, MinProperties
<1> HIDE DEF m
<1>3. m \in Blanks(c) /\ m \in Nat /\ m < Len(b) /\ Len(b) \in Nat
  BY <1>1, <1>2, FirstExtended, EolsRange, LenProperties
<1>4. \A y \in Blanks(c) : m <= y
  <2> SUFFICES ASSUME NEW y \in Blanks(c) PROVE m <= y
    OBVIOUS
  <2>1. y \in Nat
    BY EolsRange
  <2>2. CASE y < Len(b)
    BY <1>1, <1>2, <2>2, FirstExtended
  <2>3. CASE ~(y < Len(b))
    BY <1>3, <2>1, <2>3
  <2> QED
    BY <2>2, <2>3
<1>5. Min(Blanks(c)) = m
  BY <1>3, <1>4, EolsRange, MinIs
<1> QED
  BY <1>1, <1>3, <1>5 DEF m, BodyStart

-----------------------------------------------------------------------------
(* What parse_line() does.                                                  *)

\* The bytes that matter to it are different ones.
LEMMA BytesDiffer == CR # LF /\ CR # NUL /\ LF # NUL /\ CR \in Byte /\ LF \in Byte /\ NUL \in Byte
<1>1. CR.t = "CR" /\ LF.t = "LF" /\ NUL.t = "NUL"
  BY DEF CR, LF, NUL, B
<1>2. "CR" # "LF" /\ "CR" # "NUL" /\ "LF" # "NUL"
  OBVIOUS
<1>3. CR \in Byte /\ LF \in Byte /\ NUL \in Byte
  <2>1. "CR" \in Kind /\ "LF" \in Kind /\ "NUL" \in Kind /\ 0 \in Int
    BY DEF Kind
  <2> QED
    BY <2>1 DEF CR, LF, NUL, B, Byte
<1> QED
  BY <1>1, <1>2, <1>3

NoEnd(o, from, to) == \A j \in from .. to : o.read[j] # CR /\ o.read[j] # LF

\* The first "\r" or "\n" from m_checked_index on is at i.
FirstEnd(o, i) ==
  /\ i \in Nat /\ o.checked < i /\ i <= Len(o.read)
  /\ NoEnd(o, o.checked + 1, i - 1)

Stopped(o, status, c) == [status |-> status, obj |-> [o EXCEPT !.checked = c]]

\* The six ways out of parse_line().
LEMMA ParseLineCases ==
  ASSUME NEW o \in Object, InBuffers(o)
  PROVE  LET n == Len(o.read)
             p == parse_line(o)
         IN \/ NoEnd(o, o.checked + 1, n) /\ p = Stopped(o, "LINE_OPEN", n)
            \/ \E i \in Nat :
                 /\ FirstEnd(o, i)
                 /\ \/ o.read[i] = CR /\ i = n /\ p = Stopped(o, "LINE_OPEN", i - 1)
                    \/ o.read[i] = CR /\ i < n /\ o.read[i + 1] = LF /\ p = Ended(o, i, i + 1)
                    \/ o.read[i] = CR /\ i < n /\ o.read[i + 1] # LF /\ p = Stopped(o, "LINE_BAD", i - 1)
                    \/ o.read[i] = LF /\ i > 2 /\ o.read[i - 1] = CR /\ p = Ended(o, i - 1, i)
                    \/ o.read[i] = LF /\ ~(i > 2 /\ o.read[i - 1] = CR) /\ p = Stopped(o, "LINE_BAD", i - 1)
<1> DEFINE n == Len(o.read)
           ends == {i \in o.checked + 1 .. n : o.read[i] \in {CR, LF}}
<1>1. n \in Nat /\ o.checked \in Nat /\ o.checked <= n
  BY LenProperties DEF Object, InBuffers
<1>2. CASE ends = {}
  <2>1. parse_line(o) = Stopped(o, "LINE_OPEN", n)
    BY <1>2 DEF parse_line, Stopped
  <2>2. NoEnd(o, o.checked + 1, n)
    BY <1>2 DEF NoEnd
  <2> QED
    BY <2>1, <2>2
<1>3. CASE ends # {}
  <2> DEFINE i == Min(ends)
  <2>1. ends \in SUBSET Nat
    BY <1>1
  <2>2. i \in ends /\ \A y \in ends : i <= y
    <3> HIDE DEF ends
    <3> QED
      BY <1>3, <2>1, MinProperties
  <2>3. parse_line(o) =
          IF o.read[i] = CR
          THEN IF i = n THEN Stopped(o, "LINE_OPEN", i - 1)
               ELSE IF o.read[i + 1] = LF THEN Ended(o, i, i + 1) ELSE Stopped(o, "LINE_BAD", i - 1)
          ELSE IF i > 2 /\ o.read[i - 1] = CR THEN Ended(o, i - 1, i)
               ELSE Stopped(o, "LINE_BAD", i - 1)
    <3>1. o.read[i] = CR \/ (o.read[i] = LF /\ o.read[i] # CR)
      BY <2>2, BytesDiffer
    <3>2. parse_line(o) =
            CASE ends = {} -> Stopped(o, "LINE_OPEN", n)
              [] ends # {} /\ o.read[i] = CR ->
                   IF i = n THEN Stopped(o, "LINE_OPEN", i - 1)
                   ELSE IF o.read[i + 1] = LF THEN Ended(o, i, i + 1) ELSE Stopped(o, "LINE_BAD", i - 1)
              [] ends # {} /\ o.read[i] = LF ->
                   IF i > 2 /\ o.read[i - 1] = CR THEN Ended(o, i - 1, i)
                   ELSE Stopped(o, "LINE_BAD", i - 1)
      BY DEF parse_line, Stopped
    <3> HIDE DEF ends, i
    <3> QED
      BY <1>3, <3>1, <3>2, BytesDiffer
  <2>4. FirstEnd(o, i)
    <3>1. i \in Nat /\ o.checked < i /\ i <= n /\ (o.read[i] = CR \/ o.read[i] = LF)
      BY <1>1, <2>2
    <3>2. ASSUME NEW j \in o.checked + 1 .. i - 1 PROVE o.read[j] # CR /\ o.read[j] # LF
      <4>1. j \notin ends /\ j \in o.checked + 1 .. n
        <5> HIDE DEF ends, i
        <5> QED
          BY <1>1, <2>2, <3>1
      <4> QED
        BY <4>1
    <3> QED
      BY <3>1, <3>2 DEF FirstEnd, NoEnd
  <2>5. o.read[i] = CR \/ o.read[i] = LF
    BY <2>2
  <2> HIDE DEF i
  <2>6. i \in Nat /\ i <= n
    BY <2>4 DEF FirstEnd
  <2>7. CASE o.read[i] = CR
    BY <1>1, <2>3, <2>4, <2>6, <2>7
  <2>8. CASE o.read[i] # CR
    BY <1>1, <2>3, <2>4, <2>5, <2>6, <2>8
  <2> QED
    BY <2>7, <2>8
<1> QED
  BY <1>2, <1>3

\* Two bytes of the buffer are replaced: what is left of the object, and its type.
LEMMA EndedObject ==
  ASSUME NEW o \in Object, InBuffers(o), NEW i \in Nat, 1 <= i, i < Len(o.read),
         o.checked <= i + 1
  PROVE  LET q == Ended(o, i, i + 1).obj
         IN /\ q \in Object /\ InBuffers(q)
            /\ Len(q.read) = Len(o.read) /\ q.checked = i + 1 /\ q.start = o.start
            /\ q.read[i] = NUL /\ q.read[i + 1] = NUL
            /\ \A j \in 1 .. Len(o.read) : j # i /\ j # i + 1 => q.read[j] = o.read[j]
            /\ q = [o EXCEPT !.read = q.read, !.checked = i + 1]
<1> DEFINE r == [[o.read EXCEPT ![i] = NUL] EXCEPT ![i + 1] = NUL]
           q == [o EXCEPT !.read = r, !.checked = i + 1]
<1>1. o.read \in Seq(Byte) /\ Len(o.read) \in Nat /\ i \in 1 .. Len(o.read) /\ i + 1 \in 1 .. Len(o.read)
  BY LenProperties DEF Object
<1>2. /\ r \in Seq(Byte) /\ Len(r) = Len(o.read) /\ r[i] = NUL /\ r[i + 1] = NUL
      /\ \A j \in 1 .. Len(o.read) : j # i /\ j # i + 1 => r[j] = o.read[j]
  <2> DEFINE s == [o.read EXCEPT ![i] = NUL]
  <2>1. /\ s \in Seq(Byte) /\ Len(s) = Len(o.read)
        /\ \A j \in 1 .. Len(o.read) : s[j] = IF j = i THEN NUL ELSE o.read[j]
    BY <1>1, BytesDiffer, ExceptSeq
  <2> HIDE DEF s
  <2>2. /\ r \in Seq(Byte) /\ Len(r) = Len(s)
        /\ \A j \in 1 .. Len(s) : r[j] = IF j = i + 1 THEN NUL ELSE s[j]
    BY <1>1, <2>1, BytesDiffer, ExceptSeq DEF s
  <2> HIDE DEF r
  <2> QED
    BY <1>1, <2>1, <2>2
<1>3. Ended(o, i, i + 1).obj = q
  BY DEF Ended, Object
<1> HIDE DEF r
<1>4. q \in Object
  <2>1. r \in Seq(Byte) /\ i + 1 \in Nat
    BY <1>2
  <2> QED
    BY <2>1 DEF Object
<1>5. q.read = r /\ q.checked = i + 1 /\ q.start = o.start /\ q.wbuf = o.wbuf
  BY DEF Object
<1>6. InBuffers(q)
  BY <1>1, <1>2, <1>5 DEF InBuffers, Object
<1>7. q = [o EXCEPT !.read = q.read, !.checked = i + 1]
  BY <1>5
<1> HIDE DEF q
<1>8. /\ Len(q.read) = Len(o.read) /\ q.read[i] = NUL /\ q.read[i + 1] = NUL
      /\ \A j \in 1 .. Len(o.read) : j # i /\ j # i + 1 => q.read[j] = o.read[j]
  BY <1>2, <1>5
<1> QED
  BY <1>3, <1>4, <1>5, <1>6, <1>7, <1>8

\* The object when parse_line() has found no line.
LEMMA StoppedObject ==
  ASSUME NEW o \in Object, InBuffers(o), NEW c \in Nat, o.checked <= c, c <= Len(o.read)
  PROVE  LET q == [o EXCEPT !.checked = c] IN q \in Object /\ InBuffers(q)
<1> DEFINE q == [o EXCEPT !.checked = c]
<1>1. q \in Object
  BY DEF Object
<1>2. q.read = o.read /\ q.checked = c /\ q.start = o.start /\ q.wbuf = o.wbuf
  BY DEF Object
<1>3. o.start \in Nat /\ o.checked \in Nat /\ Len(o.read) \in Nat
  BY LenProperties DEF Object
<1>4. InBuffers(q)
  BY <1>2, <1>3 DEF InBuffers
<1> QED
  BY <1>1, <1>4

\* Whatever is in the buffer, parse_line() stays inside it, moves forward and
\* changes m_read_buf and m_checked_index only.
LEMMA ParseLineTyped ==
  ASSUME NEW o \in Object, InBuffers(o)
  PROVE  LET p == parse_line(o)
         IN /\ p.status \in {"LINE_OK", "LINE_OPEN", "LINE_BAD"}
            /\ p.obj \in Object /\ InBuffers(p.obj)
            /\ Len(p.obj.read) = Len(o.read) /\ o.checked <= p.obj.checked
            /\ p.obj = [o EXCEPT !.read = p.obj.read, !.checked = p.obj.checked]
<1> DEFINE n == Len(o.read)
           p == parse_line(o)
           Good == /\ p.status \in {"LINE_OK", "LINE_OPEN", "LINE_BAD"}
                   /\ p.obj \in Object /\ InBuffers(p.obj)
                   /\ Len(p.obj.read) = Len(o.read) /\ o.checked <= p.obj.checked
                   /\ p.obj = [o EXCEPT !.read = p.obj.read, !.checked = p.obj.checked]
<1>1. n \in Nat /\ o.checked \in Nat /\ o.checked <= n
  BY LenProperties DEF Object, InBuffers
<1> HIDE DEF p
<1>2. ASSUME NEW c \in Nat, NEW status \in {"LINE_OPEN", "LINE_BAD"},
             p = Stopped(o, status, c), o.checked <= c, c <= n
      PROVE  Good
  <2>1. p.status = status /\ p.obj = [o EXCEPT !.checked = c]
    BY <1>2 DEF Stopped
  <2>2. p.obj \in Object /\ InBuffers(p.obj)
    BY <1>2, <2>1, StoppedObject
  <2>3. p.obj.read = o.read /\ p.obj.checked = c
    BY <2>1 DEF Object
  <2>4. p.obj = [o EXCEPT !.read = p.obj.read, !.checked = p.obj.checked]
    BY <2>1, <2>3 DEF Object
  <2> QED
    BY <1>2, <2>1, <2>2, <2>3, <2>4
<1>3. ASSUME NEW i \in Nat, p = Ended(o, i, i + 1), 1 <= i, i < n, o.checked <= i + 1
      PROVE  Good
  <2>1. p.status = "LINE_OK" /\ p.obj = Ended(o, i, i + 1).obj
    BY <1>3 DEF Ended
  <2>2. /\ p.obj \in Object /\ InBuffers(p.obj)
        /\ Len(p.obj.read) = Len(o.read) /\ p.obj.checked = i + 1
        /\ p.obj = [o EXCEPT !.read = p.obj.read, !.checked = i + 1]
    BY <1>3, <2>1, EndedObject
  <2> QED
    BY <1>3, <2>1, <2>2
<1>4. \/ p = Stopped(o, "LINE_OPEN", n)
      \/ \E i \in Nat :
           /\ FirstEnd(o, i)
           /\ \/ i = n /\ p = Stopped(o, "LINE_OPEN", i - 1)
              \/ i < n /\ p = Ended(o, i, i + 1)
              \/ i > 2 /\ p = Ended(o, i - 1, i)
              \/ p = Stopped(o, "LINE_BAD", i - 1)
  BY ParseLineCases DEF p
<1>5. ASSUME p = Stopped(o, "LINE_OPEN", n) PROVE Good
  <2> HIDE DEF Good
  <2> QED
    BY <1>1, <1>2, <1>5
<1>6. ASSUME NEW i \in Nat, FirstEnd(o, i),
             \/ i = n /\ p = Stopped(o, "LINE_OPEN", i - 1)
             \/ i < n /\ p = Ended(o, i, i + 1)
             \/ i > 2 /\ p = Ended(o, i - 1, i)
             \/ p = Stopped(o, "LINE_BAD", i - 1)
      PROVE  Good
  <2>1. o.checked < i /\ i <= n /\ i - 1 \in Nat /\ (i - 1) + 1 = i /\ o.checked <= i - 1
    BY <1>1, <1>6 DEF FirstEnd
  <2> HIDE DEF Good
  <2>2. CASE p = Stopped(o, "LINE_OPEN", i - 1) \/ p = Stopped(o, "LINE_BAD", i - 1)
    BY <1>1, <1>2, <2>1, <2>2
  <2>3. CASE i < n /\ p = Ended(o, i, i + 1)
    BY <1>1, <1>3, <2>1, <2>3
  <2>4. CASE i > 2 /\ p = Ended(o, i - 1, i)
    <3>1. p = Ended(o, i - 1, (i - 1) + 1)
      BY <2>1, <2>4
    <3> QED
      BY <1>1, <1>3, <2>1, <2>4, <3>1
  <2> QED
    BY <1>6, <2>2, <2>3, <2>4
<1> QED
  BY <1>4, <1>5, <1>6 DEF p

-----------------------------------------------------------------------------
(* The lines parse_line() finds are the lines of what has been read.        *)

\* What the definition of a line end says of the bytes before it.
LEMMA BeforeEol ==
  ASSUME NEW b \in Seq(Byte), NEW i \in Eols(b)
  PROVE  /\ b[i] = CR /\ b[i + 1] = LF /\ b[1] # LF
         /\ \A j \in 1 .. i - 1 : (b[j] = CR) <=> (b[j + 1] = LF)
  BY DEF Eols

\* The line that starts behind k and has no "\r" up to m does not end there.
LEMMA NoEolUpTo ==
  ASSUME NEW b \in Seq(Byte), NEW k \in Nat, AtLine(b, k), NEW m \in Nat,
         \A j \in k + 1 .. m : b[j] # CR
  PROVE  \A j \in Eols(b) : j <= m => j < k
<1> SUFFICES ASSUME NEW j \in Eols(b), j <= m, ~(j < k) PROVE FALSE
  OBVIOUS
<1>1. j \in Nat /\ 1 <= j /\ b[j] = CR
  BY EolsRange, BeforeEol
<1>2. j = k
  BY <1>1
<1>3. (k - 1) + 1 = k /\ b[(k - 1) + 1] = LF
  BY <1>1, <1>2, BeforeEol DEF AtLine
<1> QED
  BY <1>1, <1>2, <1>3, BytesDiffer

\* The first "\r" behind k, followed by "\n", ends that line.
LEMMA EolFound ==
  ASSUME NEW b \in Seq(Byte), NEW k \in Nat, AtLine(b, k),
         NEW i \in Nat, k < i, i < Len(b), b[i] = CR, b[i + 1] = LF,
         \A j \in k + 1 .. i - 1 : b[j] # CR /\ b[j] # LF
  PROVE  /\ i \in Eols(b)
         /\ \A j \in Eols(b) : j < i => j < k
         /\ LineStart(b, i) = k
<1>1. Len(b) \in Nat /\ i - 1 \in Nat
  BY LenProperties
<1>2. \A j \in Eols(b) : j <= i - 1 => j < k
  BY <1>1, NoEolUpTo
<1>3. \A j \in Eols(b) : j < i => j < k
  BY <1>2, EolsRange
<1>4. b[1] # LF
  <2>1. CASE k = 0
    <3>1. i = 1 \/ 1 \in k + 1 .. i - 1
      BY <2>1
    <3> QED
      BY <3>1, BytesDiffer
  <2>2. CASE k - 1 \in Eols(b)
    BY <2>2, BeforeEol
  <2> QED
    BY <2>1, <2>2 DEF AtLine
<1>5. ASSUME NEW j \in 1 .. i - 1 PROVE (b[j] = CR) <=> (b[j + 1] = LF)
  <2>1. CASE j > k
    <3>1. b[j] # CR
      BY <2>1
    <3>2. j + 1 \in k + 1 .. i - 1 \/ j + 1 = i
      BY <2>1
    <3>3. b[j + 1] # LF
      BY <3>2, BytesDiffer
    <3> QED
      BY <3>1, <3>3
  <2>2. CASE j <= k
    <3>1. k - 1 \in Eols(b)
      BY <2>2 DEF AtLine
    <3>2. k \in Nat /\ k >= 1 /\ (k - 1) + 1 = k
      BY <2>2
    <3>3. b[k - 1] = CR /\ b[k] = LF
      BY <3>1, <3>2, BeforeEol
    <3>4. CASE j = k
      <4>1. k + 1 \in k + 1 .. i - 1 \/ k + 1 = i
        OBVIOUS
      <4>2. b[k + 1] # LF
        BY <4>1, BytesDiffer
      <4> QED
        BY <3>3, <3>4, <4>2, BytesDiffer
    <3>5. CASE j = k - 1
      BY <3>2, <3>3, <3>5
    <3>6. CASE j < k - 1
      <4>1. j \in 1 .. (k - 1) - 1
        BY <3>6
      <4> QED
        BY <3>1, <4>1, BeforeEol
    <3> QED
      BY <2>2, <3>4, <3>5, <3>6
  <2> QED
    BY <2>1, <2>2
<1>6. i \in Eols(b)
  BY <1>1, <1>4, <1>5 DEF Eols
<1>7. LineStart(b, i) = k
  BY <1>3, LineStartIs DEF AtLine
<1> QED
  BY <1>3, <1>6, <1>7

\* A line that parse_line() finds is the next line of what has been read.
LEMMA LineFound ==
  ASSUME NEW o \in Object, InBuffers(o), NEW b \in Seq(Byte), ReadingLines(o, b),
         parse_line(o).status = "LINE_OK"
  PROVE  \E i \in Eols(b) :
           /\ o.start < i /\ o.checked <= i + 1
           /\ parse_line(o) = Ended(o, i, i + 1)
           /\ \A j \in Eols(b) : j < i => j < o.start
           /\ LineStart(b, i) = o.start
<1> DEFINE n == Len(b)
           k == o.start
<1>1. /\ n \in Nat /\ o.checked \in Nat /\ k \in Nat /\ k <= o.checked /\ o.checked <= n
      /\ Len(o.read) = n /\ AtLine(b, k)
  BY LenProperties DEF Object, InBuffers, ReadingLines
<1>2. \A j \in k + 1 .. n : o.read[j] = b[j]
  BY DEF ReadingLines
<1>3. \A j \in k + 1 .. o.checked : b[j] # CR /\ b[j] # LF
  BY DEF ReadingLines
<1>4. PICK i \in Nat :
        /\ FirstEnd(o, i)
        /\ \/ o.read[i] = CR /\ i < n /\ o.read[i + 1] = LF /\ parse_line(o) = Ended(o, i, i + 1)
           \/ o.read[i] = LF /\ i > 2 /\ o.read[i - 1] = CR
  <2>1. \A c : Stopped(o, "LINE_OPEN", c).status # "LINE_OK" /\ Stopped(o, "LINE_BAD", c).status # "LINE_OK"
    BY DEF Stopped
  <2> QED
    BY <1>1, <2>1, ParseLineCases
<1>5. o.checked < i /\ i <= n
  BY <1>1, <1>4 DEF FirstEnd
<1>6. \A j \in k + 1 .. i - 1 : b[j] # CR /\ b[j] # LF
  <2> SUFFICES ASSUME NEW j \in k + 1 .. i - 1 PROVE b[j] # CR /\ b[j] # LF
    OBVIOUS
  <2>1. CASE j <= o.checked
    BY <1>1, <1>3, <2>1
  <2>2. CASE j > o.checked
    <3>1. j \in o.checked + 1 .. i - 1 /\ j \in k + 1 .. n
      BY <1>1, <1>5, <2>2
    <3>2. o.read[j] # CR /\ o.read[j] # LF
      BY <1>4, <3>1 DEF FirstEnd, NoEnd
    <3> QED
      BY <1>2, <3>1, <3>2
  <2> QED
    BY <1>1, <2>1, <2>2
<1>7. ~(o.read[i] = LF /\ i > 2 /\ o.read[i - 1] = CR)
  <2> SUFFICES ASSUME i > 2, o.read[i - 1] = CR PROVE FALSE
    OBVIOUS
  <2>1. CASE i - 1 > k
    <3>1. i - 1 \in k + 1 .. i - 1 /\ i - 1 \in k + 1 .. n
      BY <1>1, <1>5, <2>1
    <3> QED
      BY <1>2, <1>6, <3>1
  <2>2. CASE i - 1 = k
    <3>1. o.start > 0 /\ o.read[o.start] = NUL
      BY <2>2 DEF ReadingLines
    <3> QED
      BY <2>2, <3>1, BytesDiffer
  <2> QED
    BY <1>1, <1>5, <2>1, <2>2
<1>8. o.read[i] = CR /\ i < n /\ o.read[i + 1] = LF /\ parse_line(o) = Ended(o, i, i + 1)
  BY <1>4, <1>7
<1>9. k < i /\ b[i] = CR /\ b[i + 1] = LF
  <2>1. i \in k + 1 .. n /\ i + 1 \in k + 1 .. n /\ k < i
    BY <1>1, <1>5, <1>8
  <2>2. o.read[i] = b[i]
    BY <1>2, <2>1
  <2>3. o.read[i + 1] = b[i + 1]
    BY <1>2, <2>1
  <2> QED
    BY <1>8, <2>1, <2>2, <2>3
<1> HIDE DEF n, k
<1>10. i \in Eols(b) /\ (\A j \in Eols(b) : j < i => j < k) /\ LineStart(b, i) = k
  BY <1>1, <1>6, <1>8, <1>9, EolFound DEF n
<1>11. o.checked <= i + 1
  BY <1>1, <1>5
<1> QED
  BY <1>8, <1>9, <1>10, <1>11 DEF k

\* When it finds none, what has been read has no further line, and the line
\* that is not complete yet has been searched as far as m_checked_index.
LEMMA NoLineFound ==
  ASSUME NEW o \in Object, InBuffers(o), NEW b \in Seq(Byte), ReadingLines(o, b),
         parse_line(o).status # "LINE_OK"
  PROVE  /\ \A j \in Eols(b) : j < o.start
         /\ ReadingLines(parse_line(o).obj, b)
<1> DEFINE n == Len(b)
           k == o.start
           q == parse_line(o).obj
<1>1. /\ n \in Nat /\ o.checked \in Nat /\ k \in Nat /\ k <= o.checked /\ o.checked <= n
      /\ Len(o.read) = n /\ AtLine(b, k)
  BY LenProperties DEF Object, InBuffers, ReadingLines
<1>2. \A j \in k + 1 .. n : o.read[j] = b[j]
  BY DEF ReadingLines
<1>3. \A j \in k + 1 .. o.checked : b[j] # CR /\ b[j] # LF
  BY DEF ReadingLines
<1>4. ASSUME NEW c \in Nat, NEW status, parse_line(o) = Stopped(o, status, c),
             \A j \in k + 1 .. c : b[j] # CR /\ b[j] # LF
      PROVE  ReadingLines(q, b)
  <2>1. q = [o EXCEPT !.checked = c]
    BY <1>4 DEF Stopped
  <2>2. q.read = o.read /\ q.start = k /\ q.checked = c
    BY <2>1 DEF Object
  <2> HIDE DEF q
  <2> QED
    BY <1>4, <2>2 DEF ReadingLines
<1>5. ASSUME NEW m \in Nat, m <= n, NoEnd(o, o.checked + 1, m)
      PROVE  \A j \in k + 1 .. m : b[j] # CR /\ b[j] # LF
  <2> SUFFICES ASSUME NEW j \in k + 1 .. m PROVE b[j] # CR /\ b[j] # LF
    OBVIOUS
  <2>1. CASE j <= o.checked
    BY <1>1, <1>3, <2>1
  <2>2. CASE j > o.checked
    <3>1. j \in o.checked + 1 .. m /\ j \in k + 1 .. n
      BY <1>1, <1>5, <2>2
    <3>2. o.read[j] # CR /\ o.read[j] # LF
      BY <1>5, <3>1 DEF NoEnd
    <3> QED
      BY <1>2, <3>1, <3>2
  <2> QED
    BY <1>1, <2>1, <2>2
<1>6. ASSUME NoEnd(o, o.checked + 1, n), parse_line(o) = Stopped(o, "LINE_OPEN", n)
      PROVE  (\A j \in Eols(b) : j < k) /\ ReadingLines(q, b)
  <2>1. \A j \in k + 1 .. n : b[j] # CR /\ b[j] # LF
    BY <1>1, <1>5, <1>6
  <2>2. ReadingLines(q, b)
    BY <1>1, <1>4, <1>6, <2>1
  <2> HIDE DEF n, k, q
  <2>3. \A j \in Eols(b) : j <= n => j < k
    BY <1>1, <2>1, NoEolUpTo
  <2>4. \A j \in Eols(b) : j \in Nat /\ j < n
    BY EolsRange DEF n
  <2> QED
    BY <1>1, <2>2, <2>3, <2>4
<1>7. ASSUME NEW i \in Nat, FirstEnd(o, i),
             \/ o.read[i] = CR /\ i = n /\ parse_line(o) = Stopped(o, "LINE_OPEN", i - 1)
             \/ o.read[i] = CR /\ i < n /\ o.read[i + 1] # LF /\ parse_line(o) = Stopped(o, "LINE_BAD", i - 1)
             \/ o.read[i] = LF /\ parse_line(o) = Stopped(o, "LINE_BAD", i - 1)
      PROVE  (\A j \in Eols(b) : j < k) /\ ReadingLines(q, b)
  <2>1. k < i /\ i <= n /\ i - 1 \in Nat /\ i - 1 <= n /\ NoEnd(o, o.checked + 1, i - 1)
    BY <1>1, <1>7 DEF FirstEnd
  <2>2. \A j \in k + 1 .. i - 1 : b[j] # CR /\ b[j] # LF
    BY <1>5, <2>1
  <2>3. ReadingLines(q, b)
    BY <1>4, <1>7, <2>1, <2>2
  <2>4. b[i] = o.read[i] /\ (i < n => b[i + 1] = o.read[i + 1])
    <3>1. i \in k + 1 .. n /\ (i < n => i + 1 \in k + 1 .. n)
      BY <1>1, <2>1
    <3>2. b[i] = o.read[i]
      BY <1>2, <3>1
    <3>3. ASSUME i < n PROVE b[i + 1] = o.read[i + 1]
      BY <1>2, <3>1, <3>3
    <3> QED
      BY <3>2, <3>3
  <2> HIDE DEF n, k, q
  <2>5. \A j \in Eols(b) : j <= i - 1 => j < k
    BY <1>1, <2>1, <2>2, NoEolUpTo
  <2>6. ASSUME NEW j \in Eols(b), i <= j PROVE FALSE
    <3>1. j \in Nat /\ 1 <= j /\ j < n
      BY EolsRange DEF n
    <3>2. i < n
      BY <1>1, <2>6, <3>1
    <3>3. CASE o.read[i] = CR
      <4>1. b[i] = CR /\ b[i + 1] # LF
        BY <1>7, <2>4, <3>2, <3>3, BytesDiffer
      <4>2. i # j
        BY <4>1, BeforeEol
      <4>3. i \in 1 .. j - 1
        BY <1>1, <2>1, <2>6, <3>1, <4>2
      <4> QED
        BY <4>1, <4>3, BeforeEol
    <3>4. CASE o.read[i] = LF
      <4>1. b[i] = LF
        BY <2>4, <3>4
      <4>2. i # 1
        BY <4>1, BeforeEol
      <4>3. i - 1 \in 1 .. j - 1 /\ (i - 1) + 1 = i
        BY <1>1, <2>1, <2>6, <3>1, <4>2
      <4>4. b[i - 1] = CR
        BY <4>1, <4>3, BeforeEol
      <4>5. i - 1 = k
        BY <1>1, <2>1, <2>2, <4>4
      <4>6. k - 1 \in Eols(b) /\ (k - 1) + 1 = k
        BY <1>1, <4>2, <4>3, <4>5 DEF AtLine
      <4> QED
        BY <4>4, <4>5, <4>6, BeforeEol, BytesDiffer
    <3> QED
      BY <1>7, <3>3, <3>4
  <2>7. \A j \in Eols(b) : j \in Nat
    BY EolsRange
  <2> QED
    BY <2>1, <2>3, <2>5, <2>6, <2>7
<1>8. \/ NoEnd(o, o.checked + 1, n) /\ parse_line(o) = Stopped(o, "LINE_OPEN", n)
      \/ \E i \in Nat :
           /\ FirstEnd(o, i)
           /\ \/ o.read[i] = CR /\ i = n /\ parse_line(o) = Stopped(o, "LINE_OPEN", i - 1)
              \/ o.read[i] = CR /\ i < n /\ o.read[i + 1] # LF /\ parse_line(o) = Stopped(o, "LINE_BAD", i - 1)
              \/ o.read[i] = LF /\ parse_line(o) = Stopped(o, "LINE_BAD", i - 1)
  <2>1. \A i, c : Ended(o, i, c).status = "LINE_OK"
    BY DEF Ended
  <2> QED
    BY <1>1, <2>1, ParseLineCases
<1> HIDE DEF q
<1> QED
  BY <1>6, <1>7, <1>8 DEF q

\* The members of the object that parse_line() and m_start_line do not touch.
SameButLine(o, r) ==
  /\ r.state = o.state /\ r.url = o.url /\ r.linger = o.linger /\ r.clen = o.clen
  /\ r.wbuf = o.wbuf /\ r.toSend = o.toSend /\ r.haveSend = o.haveSend
  /\ r.file = o.file /\ r.iv = o.iv

\* m_start_line moves behind the line that parse_line() has ended.
LineTaken(o) == LET q == parse_line(o).obj IN [q EXCEPT !.start = q.checked]

\* It stays inside the buffer.
LEMMA LineTakenTyped ==
  ASSUME NEW o \in Object, InBuffers(o)
  PROVE  LET r == LineTaken(o)
         IN /\ r \in Object /\ InBuffers(r) /\ SameButLine(o, r)
            /\ Len(r.read) = Len(o.read) /\ o.checked <= r.checked /\ r.start = r.checked
<1> DEFINE q == parse_line(o).obj
           r == [q EXCEPT !.start = q.checked]
<1>1. /\ q \in Object /\ InBuffers(q) /\ Len(q.read) = Len(o.read) /\ o.checked <= q.checked
      /\ q = [o EXCEPT !.read = q.read, !.checked = q.checked]
  BY ParseLineTyped
<1> HIDE DEF q
<1>2. SameButLine(o, q)
  BY <1>1 DEF SameButLine, Object
<1>3. q.checked \in Nat
  BY <1>1 DEF Object
<1>4. r \in Object
  BY <1>1, <1>3 DEF Object
<1>5. r.read = q.read /\ r.checked = q.checked /\ r.start = q.checked /\ r.wbuf = q.wbuf
  BY <1>1 DEF Object
<1>6. SameButLine(q, r)
  BY <1>1 DEF SameButLine, Object
<1> HIDE DEF r
<1>7. InBuffers(r)
  BY <1>1, <1>3, <1>5 DEF InBuffers
<1>8. SameButLine(o, r)
  BY <1>2, <1>6 DEF SameButLine
<1> QED
  BY <1>1, <1>4, <1>5, <1>7, <1>8 DEF LineTaken, q, r

\* The text handed to the parser is the next line, and reading goes on behind it.
LEMMA NextLine ==
  ASSUME NEW o \in Object, InBuffers(o), NEW b \in Seq(Byte), ReadingLines(o, b),
         parse_line(o).status = "LINE_OK"
  PROVE  \E i \in Eols(b) :
           /\ i \in Nat /\ o.start < i /\ \A j \in Eols(b) : j < i => j < o.start
           /\ get_line(parse_line(o).obj) = Line(b, i)
           /\ LineTaken(o).start = i + 1 /\ ReadingLines(LineTaken(o), b)
<1>1. PICK i \in Eols(b) :
           /\ o.start < i /\ o.checked <= i + 1
           /\ parse_line(o) = Ended(o, i, i + 1)
           /\ \A j \in Eols(b) : j < i => j < o.start
           /\ LineStart(b, i) = o.start
  BY LineFound
<1> DEFINE k == o.start
           q == parse_line(o).obj
           r == LineTaken(o)
<1>2. /\ i \in Nat /\ 1 <= i /\ i < Len(b) /\ Len(b) \in Nat /\ k \in Nat /\ k < i
      /\ Len(o.read) = Len(b)
  BY <1>1, EolsRange, LenProperties DEF Object, ReadingLines
<1>3. \A j \in k + 1 .. Len(b) : o.read[j] = b[j]
  BY DEF ReadingLines
<1>4. /\ q \in Object /\ q.checked = i + 1 /\ q.start = k
      /\ q.read[i + 1] = NUL /\ Len(q.read) = Len(b)
      /\ \A j \in 1 .. Len(b) : j # i /\ j # i + 1 => q.read[j] = o.read[j]
  <2>1. q = Ended(o, i, i + 1).obj
    BY <1>1
  <2>2. i < Len(o.read) /\ o.checked <= i + 1
    BY <1>1, <1>2
  <2> DEFINE e == Ended(o, i, i + 1).obj
  <2>3. /\ e \in Object /\ e.checked = i + 1 /\ e.start = o.start
        /\ e.read[i + 1] = NUL /\ Len(e.read) = Len(o.read)
        /\ \A j \in 1 .. Len(o.read) : j # i /\ j # i + 1 => e.read[j] = o.read[j]
    BY <1>2, <2>2, EndedObject
  <2> HIDE DEF q, e
  <2> QED
    BY <1>2, <2>1, <2>3 DEF e
<1>5. r.read = q.read /\ r.start = i + 1 /\ r.checked = i + 1
  BY <1>4 DEF LineTaken, Object
<1> HIDE DEF q, r, k
<1>6. ReadingLines(r, b)
  <2>1. AtLine(b, i + 1)
    BY <1>1, <1>2 DEF AtLine
  <2>2. ASSUME NEW j \in (i + 1) + 1 .. Len(b) PROVE q.read[j] = b[j]
    <3>1. j \in 1 .. Len(b) /\ j # i /\ j # i + 1 /\ j \in k + 1 .. Len(b)
      BY <1>2
    <3> QED
      BY <1>3, <1>4, <3>1
  <2>3. \A j \in (i + 1) + 1 .. i + 1 : FALSE
    BY <1>2
  <2> QED
    BY <1>4, <1>5, <2>1, <2>2, <2>3 DEF ReadingLines
<1>7. get_line(q) = Line(b, i)
  <2> DEFINE s == SubSeq(q.read, k + 1, i - 1)
             t == SubSeq(b, k + 1, i - 1)
  <2>1. get_line(q) = s /\ Line(b, i) = t
    <3>1. (i + 1) - 2 = i - 1
      BY <1>2
    <3> QED
      BY <1>1, <1>4, <3>1 DEF get_line, Line, k
  <2>2. ASSUME NEW j \in k + 1 .. i - 1 PROVE q.read[j] = b[j] /\ b[j] \in Byte
    <3>1. j \in 1 .. Len(b) /\ j # i /\ j # i + 1 /\ j \in k + 1 .. Len(b)
      BY <1>2
    <3> QED
      BY <1>3, <1>4, <3>1, ElementOfSeq
  <2>3. s \in Seq(Byte) /\ t \in Seq(Byte) /\ Len(s) = Len(t)
    BY <1>2, <2>2, SubSeqProperties
  <2>4. ASSUME NEW j \in 1 .. Len(s) PROVE s[j] = t[j]
    <3>1. Len(s) = IF k + 1 <= i - 1 THEN (i - 1) - (k + 1) + 1 ELSE 0
      BY <1>2, <2>2, SubSeqProperties
    <3>2. \A x \in 1 .. (i - 1) - (k + 1) + 1 :
            s[x] = q.read[(k + 1) + x - 1] /\ t[x] = b[(k + 1) + x - 1]
      BY <1>2, <2>2, SubSeqProperties
    <3> HIDE DEF s, t
    <3>3. j \in 1 .. (i - 1) - (k + 1) + 1 /\ (k + 1) + j - 1 \in k + 1 .. i - 1
      BY <1>2, <3>1
    <3> QED
      BY <2>2, <3>2, <3>3
  <2> HIDE DEF s, t
  <2> QED
    BY <2>1, <2>3, <2>4, SeqEqual
<1> QED
  BY <1>1, <1>2, <1>5, <1>6, <1>7 DEF q, r, k

\* What the first line makes of a request without headers yet.
LEMMA FirstTaken ==
  ASSUME NEW b \in Seq(Byte), NEW i \in Eols(b), \A j \in Eols(b) : ~(j < i)
  PROVE  /\ Min(Eols(b)) = i /\ FirstLine(b) = Line(b, i)
         /\ LengthTo(b, i + 1) = 0 /\ ~LingerTo(b, i + 1)
         /\ \A j \in Blanks(b) : j >= i + 1
<1>1. \A j \in Eols(b) : j \in Nat /\ i <= j
  BY EolsRange
<1>2. Min(Eols(b)) = i
  BY <1>1, EolsRange, MinIs
<1>3. HeadersTo(b, i + 1) = {}
  BY <1>1, <1>2 DEF HeadersTo
<1>4. LengthTo(b, i + 1) = 0 /\ ~LingerTo(b, i + 1)
  BY <1>3 DEF LengthTo, LengthsTo, LingerTo
<1>5. \A j \in Blanks(b) : j >= i + 1
  BY <1>1, <1>2 DEF Blanks
<1> QED
  BY <1>2, <1>4, <1>5 DEF FirstLine

\* What one more header changes.
LEMMA HeaderTaken ==
  ASSUME NEW b \in Seq(Byte), NEW k \in Nat, k - 1 \in Eols(b), NEW i \in Eols(b), k < i,
         \A j \in Eols(b) : j < i => j < k
  PROVE  /\ LengthTo(b, i + 1) = IF Line(b, i)[1].t = "Content-Length" THEN Line(b, i)[1].v
                                 ELSE LengthTo(b, k)
         /\ LingerTo(b, i + 1) <=> LingerTo(b, k) \/ Line(b, i) = <<KeepAlive>>
         /\ i # Min(Eols(b))
<1>1. \A j \in Eols(b) : j \in Nat
  BY EolsRange
<1>2. i # Min(Eols(b))
  <2>1. Min(Eols(b)) <= k - 1
    BY EolsRange, MinProperties
  <2> QED
    BY <1>1, <2>1
<1>3. HeadersTo(b, i + 1) = HeadersTo(b, k) \cup {i}
  BY <1>1, <1>2 DEF HeadersTo
<1>4. LingerTo(b, i + 1) <=> LingerTo(b, k) \/ Line(b, i) = <<KeepAlive>>
  BY <1>3 DEF LingerTo
<1>5. CASE Line(b, i)[1].t = "Content-Length"
  <2> DEFINE S == LengthsTo(b, i + 1)
  <2>1. i \in S
    BY <1>3, <1>5 DEF LengthsTo
  <2>2. S \in SUBSET Nat /\ \A y \in S : y <= i
    BY <1>1 DEF LengthsTo, HeadersTo
  <2> HIDE DEF S
  <2>3. Max(S) = i
    BY <2>1, <2>2, MaxIs
  <2> QED
    BY <1>2, <1>4, <1>5, <2>1, <2>3 DEF LengthTo, S
<1>6. CASE Line(b, i)[1].t # "Content-Length"
  <2>1. LengthsTo(b, i + 1) = LengthsTo(b, k)
    BY <1>3, <1>6 DEF LengthsTo
  <2> QED
    BY <1>2, <1>4, <1>6, <2>1 DEF LengthTo
<1> QED
  BY <1>5, <1>6

\* The first empty line behind the request line ends the headers.
LEMMA BlankTaken ==
  ASSUME NEW b \in Seq(Byte), NEW k \in Nat, k - 1 \in Eols(b), NEW i \in Eols(b), k < i,
         \A j \in Eols(b) : j < i => j < k, Line(b, i) = <<>>,
         \A j \in Blanks(b) : j >= k
  PROVE  /\ Blanks(b) # {} /\ Min(Blanks(b)) = i /\ BodyStart(b) = i + 1
         /\ LengthTo(b, i) = LengthTo(b, k) /\ (LingerTo(b, i) <=> LingerTo(b, k))
<1>1. \A j \in Eols(b) : j \in Nat
  BY EolsRange
<1>2. i \in Blanks(b)
  BY HeaderTaken DEF Blanks
<1>3. \A j \in Blanks(b) : i <= j
  BY <1>1, EolsRange
<1>4. Min(Blanks(b)) = i
  BY <1>2, <1>3, EolsRange, MinIs
<1>5. HeadersTo(b, i) = HeadersTo(b, k)
  BY <1>1 DEF HeadersTo
<1> QED
  BY <1>2, <1>4, <1>5 DEF BodyStart, LengthTo, LengthsTo, LingerTo

-----------------------------------------------------------------------------
(* What is built to be sent.                                                *)

AnswerCodes == {"FILE_REQUEST", "BAD_REQUEST", "NO_RESOURCE"}

\* The lines of an answer are bytes.
LEMMA HeaderTyped ==
  ASSUME NEW code \in AnswerCodes, NEW linger \in BOOLEAN
  PROVE  LET h == Header(code, linger)
         IN /\ h \in Seq(Byte) /\ Len(h) = HEADER_LEN /\ \A i \in 1 .. 5 : h[i] \in Byte
            /\ Content(code) \in Byte
<1> DEFINE h == Header(code, linger)
<1>1. Status(code) \in Int
  BY DEF Status, AnswerCodes
<1>2. /\ "HTTP/1.1" \in Kind /\ "Content-Length" \in Kind /\ "Content-Type" \in Kind
      /\ "Connection" \in Kind /\ "blank" \in Kind /\ "content" \in Kind
  BY DEF Kind
<1>3. ASSUME NEW t \in Kind, NEW v \in Int PROVE B(t, v) \in Byte
  BY DEF B, Byte
<1>4. (IF linger THEN 1 ELSE 0) \in Int
  OBVIOUS
<1>5. /\ B("HTTP/1.1", Status(code)) \in Byte /\ B("Content-Length", Status(code)) \in Byte
      /\ B("Content-Type", 0) \in Byte /\ B("Connection", IF linger THEN 1 ELSE 0) \in Byte
      /\ B("blank", 0) \in Byte /\ Content(code) \in Byte
  BY <1>1, <1>2, <1>3, <1>4 DEF Content
<1>6. h \in Seq(Byte) /\ Len(h) = 5
  BY <1>5 DEF Header
<1> QED
  BY <1>5, <1>6, ElementOfSeq DEF HEADER_LEN

\* add_response() does not run over the end of the buffer.
LEMMA AddResponseTyped ==
  ASSUME NEW b \in Seq(Byte), Len(b) <= WRITE_BUFFER_SIZE, NEW x \in Byte
  PROVE  /\ add_response(b, x) \in Seq(Byte)
         /\ Len(add_response(b, x)) <= WRITE_BUFFER_SIZE
<1>1. Len(b) \in Nat /\ WRITE_BUFFER_SIZE \in Nat
  BY LenProperties, ConnectionAssumption
<1>2. Append(b, x) \in Seq(Byte) /\ Len(Append(b, x)) = Len(b) + 1
  BY AppendProperties
<1> QED
  BY <1>1, <1>2 DEF add_response

\* Nor does the header.
LEMMA AddHeaderTyped ==
  ASSUME NEW b \in Seq(Byte), Len(b) <= WRITE_BUFFER_SIZE,
         NEW code \in AnswerCodes, NEW linger \in BOOLEAN
  PROVE  LET w == AddHeader(b, Header(code, linger))
         IN w \in Seq(Byte) /\ Len(w) <= WRITE_BUFFER_SIZE
<1> DEFINE h == Header(code, linger)
           line1 == add_response(b, h[1])
           line2 == add_response(line1, h[2])
           line3 == add_response(line2, h[3])
           line4 == add_response(line3, h[4])
           line5 == add_response(line4, h[5])
<1>1. h[1] \in Byte /\ h[2] \in Byte /\ h[3] \in Byte /\ h[4] \in Byte /\ h[5] \in Byte
  <2>1. \A i \in 1 .. 5 : h[i] \in Byte
    BY HeaderTyped
  <2> HIDE DEF h
  <2> QED
    BY <2>1
<1> HIDE DEF h
<1>2. line1 \in Seq(Byte) /\ Len(line1) <= WRITE_BUFFER_SIZE
  BY <1>1, AddResponseTyped
<1> HIDE DEF line1
<1>3. line2 \in Seq(Byte) /\ Len(line2) <= WRITE_BUFFER_SIZE
  BY <1>1, <1>2, AddResponseTyped
<1> HIDE DEF line2
<1>4. line3 \in Seq(Byte) /\ Len(line3) <= WRITE_BUFFER_SIZE
  BY <1>1, <1>3, AddResponseTyped
<1> HIDE DEF line3
<1>5. line4 \in Seq(Byte) /\ Len(line4) <= WRITE_BUFFER_SIZE
  BY <1>1, <1>4, AddResponseTyped
<1> HIDE DEF line4
<1>6. line5 \in Seq(Byte) /\ Len(line5) <= WRITE_BUFFER_SIZE
  BY <1>1, <1>5, AddResponseTyped
<1>7. AddHeader(b, h) = line5
  BY DEF AddHeader, line1, line2, line3, line4
<1> QED
  BY <1>6, <1>7 DEF h

\* As long as the buffer holds five lines or less, a line is added to it.
LEMMA AddResponseFits ==
  ASSUME NEW b \in Seq(Byte), Len(b) <= HEADER_LEN, NEW x \in Byte
  PROVE  add_response(b, x) = Append(b, x)
<1>1. WRITE_BUFFER_SIZE \in Nat /\ WRITE_BUFFER_SIZE > 7
  BY ConnectionAssumption, AnswerFits
<1>2. ~(1 >= WRITE_BUFFER_SIZE - 1 - Len(b))
  BY <1>1, LenProperties DEF HEADER_LEN
<1> QED
  BY <1>2 DEF add_response

\* What a sequence with one element more is.
LEMMA AppendIs ==
  ASSUME NEW s \in Seq(Byte), NEW x \in Byte, NEW t \in Seq(Byte), Len(t) = Len(s) + 1,
         \A i \in 1 .. Len(s) : t[i] = s[i], t[Len(s) + 1] = x
  PROVE  Append(s, x) = t
<1> DEFINE a == Append(s, x)
<1>1. a \in Seq(Byte) /\ Len(a) = Len(s) + 1
  BY AppendProperties
<1>2. a[Len(s) + 1] = x /\ \A i \in 1 .. Len(s) : a[i] = s[i]
  BY AppendProperties
<1> HIDE DEF a
<1>3. \A i \in 1 .. Len(s) + 1 : i \in 1 .. Len(s) \/ i = Len(s) + 1
  BY LenProperties
<1>4. \A i \in 1 .. Len(a) : a[i] = t[i]
  BY <1>1, <1>2, <1>3
<1>5. a = t
  BY <1>1, <1>4, SeqEqual
<1> QED
  BY <1>5 DEF a

\* Five lines fit into an empty buffer.
LEMMA AddFive ==
  ASSUME NEW x1 \in Byte, NEW x2 \in Byte, NEW x3 \in Byte, NEW x4 \in Byte, NEW x5 \in Byte
  PROVE  AddHeader(<<>>, <<x1, x2, x3, x4, x5>>) = <<x1, x2, x3, x4, x5>>
<1> DEFINE h == <<x1, x2, x3, x4, x5>>
<1>1. h[1] = x1 /\ h[2] = x2 /\ h[3] = x3 /\ h[4] = x4 /\ h[5] = x5
  OBVIOUS
<1>2. add_response(<<>>, x1) = <<x1>>
  <2>1. <<>> \in Seq(Byte) /\ Len(<<>>) <= HEADER_LEN
    BY DEF HEADER_LEN
  <2>2. Append(<<>>, x1) = <<x1>>
    OBVIOUS
  <2> QED
    BY <2>1, <2>2, AddResponseFits
<1>3. add_response(<<x1>>, x2) = <<x1, x2>>
  <2>1. <<x1>> \in Seq(Byte) /\ Len(<<x1>>) <= HEADER_LEN
    BY DEF HEADER_LEN
  <2>2. Append(<<x1>>, x2) = <<x1, x2>>
    <3> DEFINE s == <<x1>>
               t == <<x1, x2>>
    <3>1. s \in Seq(Byte) /\ Len(s) = 1 /\ t \in Seq(Byte) /\ Len(t) = 2
      OBVIOUS
    <3>2. t[2] = x2 /\ \A i \in 1 .. 1 : t[i] = s[i]
      OBVIOUS
    <3> HIDE DEF s, t
    <3>3. Len(t) = Len(s) + 1 /\ t[Len(s) + 1] = x2 /\ \A i \in 1 .. Len(s) : t[i] = s[i]
      BY <3>1, <3>2
    <3>4. Append(s, x2) = t
      BY <3>1, <3>3, AppendIs
    <3> QED
      BY <3>4 DEF s, t
  <2> QED
    BY <2>1, <2>2, AddResponseFits
<1>4. add_response(<<x1, x2>>, x3) = <<x1, x2, x3>>
  <2>1. <<x1, x2>> \in Seq(Byte) /\ Len(<<x1, x2>>) <= HEADER_LEN
    BY DEF HEADER_LEN
  <2>2. Append(<<x1, x2>>, x3) = <<x1, x2, x3>>
    <3> DEFINE s == <<x1, x2>>
               t == <<x1, x2, x3>>
    <3>1. s \in Seq(Byte) /\ Len(s) = 2 /\ t \in Seq(Byte) /\ Len(t) = 3
      OBVIOUS
    <3>2. t[3] = x3 /\ \A i \in 1 .. 2 : t[i] = s[i]
      OBVIOUS
    <3> HIDE DEF s, t
    <3>3. Len(t) = Len(s) + 1 /\ t[Len(s) + 1] = x3 /\ \A i \in 1 .. Len(s) : t[i] = s[i]
      BY <3>1, <3>2
    <3>4. Append(s, x3) = t
      BY <3>1, <3>3, AppendIs
    <3> QED
      BY <3>4 DEF s, t
  <2> QED
    BY <2>1, <2>2, AddResponseFits
<1>5. add_response(<<x1, x2, x3>>, x4) = <<x1, x2, x3, x4>>
  <2>1. <<x1, x2, x3>> \in Seq(Byte) /\ Len(<<x1, x2, x3>>) <= HEADER_LEN
    BY DEF HEADER_LEN
  <2>2. Append(<<x1, x2, x3>>, x4) = <<x1, x2, x3, x4>>
    <3> DEFINE s == <<x1, x2, x3>>
               t == <<x1, x2, x3, x4>>
    <3>1. s \in Seq(Byte) /\ Len(s) = 3 /\ t \in Seq(Byte) /\ Len(t) = 4
      OBVIOUS
    <3>2. t[4] = x4 /\ \A i \in 1 .. 3 : t[i] = s[i]
      OBVIOUS
    <3> HIDE DEF s, t
    <3>3. Len(t) = Len(s) + 1 /\ t[Len(s) + 1] = x4 /\ \A i \in 1 .. Len(s) : t[i] = s[i]
      BY <3>1, <3>2
    <3>4. Append(s, x4) = t
      BY <3>1, <3>3, AppendIs
    <3> QED
      BY <3>4 DEF s, t
  <2> QED
    BY <2>1, <2>2, AddResponseFits
<1>6. add_response(<<x1, x2, x3, x4>>, x5) = h
  <2>1. <<x1, x2, x3, x4>> \in Seq(Byte) /\ Len(<<x1, x2, x3, x4>>) <= HEADER_LEN
    BY DEF HEADER_LEN
  <2>2. Append(<<x1, x2, x3, x4>>, x5) = h
    <3> DEFINE s == <<x1, x2, x3, x4>>
               t == <<x1, x2, x3, x4, x5>>
    <3>1. s \in Seq(Byte) /\ Len(s) = 4 /\ t \in Seq(Byte) /\ Len(t) = 5
      OBVIOUS
    <3>2. t[5] = x5 /\ \A i \in 1 .. 4 : t[i] = s[i]
      OBVIOUS
    <3> HIDE DEF s, t
    <3>3. Len(t) = Len(s) + 1 /\ t[Len(s) + 1] = x5 /\ \A i \in 1 .. Len(s) : t[i] = s[i]
      BY <3>1, <3>2
    <3>4. Append(s, x5) = t
      BY <3>1, <3>3, AppendIs
    <3> QED
      BY <3>4 DEF s, t
  <2> HIDE DEF h
  <2> QED
    BY <2>1, <2>2, AddResponseFits
<1>7. AddHeader(<<>>, h) =
        add_response(add_response(add_response(add_response(
          add_response(<<>>, h[1]), h[2]), h[3]), h[4]), h[5])
  BY DEF AddHeader
<1> HIDE DEF h
<1>8. AddHeader(<<>>, h) = h
  BY <1>1, <1>2, <1>3, <1>4, <1>5, <1>6, <1>7
<1> QED
  BY <1>8 DEF h

\* So the header fits as a whole, and an error page behind it.
LEMMA AddHeaderWhole ==
  ASSUME NEW code \in AnswerCodes, NEW linger \in BOOLEAN
  PROVE  LET h == Header(code, linger)
         IN /\ AddHeader(<<>>, h) = h
            /\ add_response(h, Content(code)) # h
<1> DEFINE h == Header(code, linger)
<1>1. h \in Seq(Byte) /\ Len(h) = HEADER_LEN /\ Content(code) \in Byte
  BY HeaderTyped
<1>2. \A i \in 1 .. 5 : h[i] \in Byte
  BY HeaderTyped
<1>3. h = <<B("HTTP/1.1", Status(code)), B("Content-Length", Status(code)), B("Content-Type", 0),
            B("Connection", IF linger THEN 1 ELSE 0), B("blank", 0)>>
  BY DEF Header
<1>4. /\ B("HTTP/1.1", Status(code)) \in Byte /\ B("Content-Length", Status(code)) \in Byte
      /\ B("Content-Type", 0) \in Byte /\ B("Connection", IF linger THEN 1 ELSE 0) \in Byte
      /\ B("blank", 0) \in Byte
  BY <1>2, <1>3
<1>5. AddHeader(<<>>, h) = h
  BY <1>3, <1>4, AddFive
<1> HIDE DEF h
<1>6. HEADER_LEN \in Nat
  BY DEF HEADER_LEN
<1>7. add_response(h, Content(code)) = Append(h, Content(code))
  BY <1>1, <1>6, AddResponseFits
<1>8. Len(Append(h, Content(code))) = HEADER_LEN + 1
  BY <1>1, AppendProperties
<1>9. add_response(h, Content(code)) # h
  BY <1>1, <1>6, <1>7, <1>8
<1> QED
  BY <1>5, <1>9 DEF h

\* The answer is a sequence of bytes, header first.
LEMMA AnswerTyped ==
  ASSUME NEW a \in [code : AnswerCodes, url : Int, linger : BOOLEAN]
  PROVE  /\ AnswerTo(a) \in Seq(Byte)
         /\ a.code = "FILE_REQUEST" =>
              /\ Len(AnswerTo(a)) = HEADER_LEN + FILE_LEN
              /\ \A i \in 1 .. HEADER_LEN : AnswerTo(a)[i] = Header(a.code, a.linger)[i]
              /\ \A i \in 1 .. FILE_LEN : AnswerTo(a)[HEADER_LEN + i] = FileByte(a.url, i)
<1> DEFINE h == Header(a.code, a.linger)
           f == [i \in 1 .. FILE_LEN |-> FileByte(a.url, i)]
<1>1. h \in Seq(Byte) /\ Len(h) = HEADER_LEN /\ Content(a.code) \in Byte
  BY HeaderTyped
<1>2. f \in Seq(Byte) /\ Len(f) = FILE_LEN /\ \A i \in 1 .. FILE_LEN : f[i] = FileByte(a.url, i)
  <2>1. FILE_LEN \in Nat
    BY ConnectionAssumption
  <2>2. \A i \in 1 .. FILE_LEN : FileByte(a.url, i) \in Byte
    <3> SUFFICES ASSUME NEW i \in 1 .. FILE_LEN PROVE FileByte(a.url, i) \in Byte
      OBVIOUS
    <3>1. FileByte(a.url, i) = B("file", 10 * a.url + i)
      BY DEF FileByte
    <3>2. 10 * a.url + i \in Int /\ "file" \in Kind
      BY <2>1 DEF Kind
    <3> QED
      BY <3>1, <3>2 DEF B, Byte
  <2>3. f \in [1 .. FILE_LEN -> Byte] /\ \A i \in 1 .. FILE_LEN : f[i] = FileByte(a.url, i)
    BY <2>2
  <2> HIDE DEF f
  <2>4. f \in Seq(Byte)
    BY <2>1, <2>3, SeqDef
  <2>5. Len(f) = FILE_LEN
    BY <2>1, <2>3, <2>4
  <2> QED
    BY <2>3, <2>4, <2>5
<1>3. CASE a.code = "FILE_REQUEST"
  <2>1. AnswerTo(a) = h \o f
    BY <1>3 DEF AnswerTo
  <2> HIDE DEF h, f
  <2>2. FILE_LEN \in Nat /\ HEADER_LEN = 5
    BY ConnectionAssumption DEF HEADER_LEN
  <2>3. /\ h \o f \in Seq(Byte) /\ Len(h \o f) = HEADER_LEN + FILE_LEN
        /\ \A i \in 1 .. HEADER_LEN + FILE_LEN :
             (h \o f)[i] = IF i <= HEADER_LEN THEN h[i] ELSE f[i - HEADER_LEN]
    BY <1>1, <1>2, ConcatProperties
  <2>4. \A i \in 1 .. HEADER_LEN : (h \o f)[i] = h[i]
    BY <2>2, <2>3
  <2>5. ASSUME NEW i \in 1 .. FILE_LEN PROVE (h \o f)[HEADER_LEN + i] = FileByte(a.url, i)
    <3>1. /\ HEADER_LEN + i \in 1 .. HEADER_LEN + FILE_LEN /\ ~(HEADER_LEN + i <= HEADER_LEN)
          /\ (HEADER_LEN + i) - HEADER_LEN = i
      BY <2>2
    <3> QED
      BY <1>2, <2>3, <3>1
  <2> QED
    BY <2>1, <2>3, <2>4, <2>5 DEF h
<1>4. CASE a.code # "FILE_REQUEST"
  <2>1. AnswerTo(a) = h \o <<Content(a.code)>>
    BY <1>4 DEF AnswerTo
  <2>2. <<Content(a.code)>> \in Seq(Byte)
    BY <1>1
  <2> HIDE DEF h
  <2> QED
    BY <1>1, <1>4, <2>1, <2>2, ConcatProperties
<1> QED
  BY <1>3, <1>4

-----------------------------------------------------------------------------
(* process() with a result.                                                 *)

\* What has been read since the object was initialised.
LEMMA CurrentIs ==
  ASSUME TypeOK
  PROVE  /\ stream \in Seq(Byte) /\ Current \in Seq(Byte) /\ Len(Current) = pos - base
         /\ \A j \in 1 .. pos - base : Current[j] = stream[base + j]
<1>1. /\ stream \in Seq(Byte \ {NUL}) /\ base \in Nat /\ pos \in Nat
      /\ base <= pos /\ pos <= Len(stream)
  BY DEF TypeOK
<1>2. stream \in Seq(Byte)
  BY <1>1, SeqMonotonic
<1>3. \A i \in base + 1 .. pos : stream[i] \in Byte
  BY <1>1, <1>2, ElementOfSeq, LenProperties
<1>4. /\ SubSeq(stream, base + 1, pos) \in Seq(Byte)
      /\ Len(SubSeq(stream, base + 1, pos)) = IF base + 1 <= pos THEN pos - (base + 1) + 1 ELSE 0
      /\ \A i \in 1 .. pos - (base + 1) + 1 :
           SubSeq(stream, base + 1, pos)[i] = stream[(base + 1) + i - 1]
  BY <1>1, <1>3, SubSeqProperties
<1>5. Len(Current) = pos - base
  BY <1>1, <1>4 DEF Current
<1>6. ASSUME NEW j \in 1 .. pos - base PROVE Current[j] = stream[base + j]
  <2>1. j \in 1 .. pos - (base + 1) + 1 /\ (base + 1) + j - 1 = base + j
    BY <1>1
  <2> QED
    BY <1>4, <2>1 DEF Current
<1> QED
  BY <1>2, <1>4, <1>5, <1>6 DEF Current

\* The same after a step.
LEMMA CurrentNext ==
  (TypeOK => /\ Current \in Seq(Byte) /\ Len(Current) = pos - base
             /\ \A j \in 1 .. pos - base : Current[j] = stream[base + j])'
<1>1. TypeOK => /\ Current \in Seq(Byte) /\ Len(Current) = pos - base
                /\ \A j \in 1 .. pos - base : Current[j] = stream[base + j]
  BY CurrentIs
<1> QED
  BY <1>1, PTL

\* An object with a new answer in it.
WithAnswer(o, w, file, toSend, iv) ==
  [o EXCEPT !.wbuf = w, !.file = file, !.toSend = toSend, !.iv = iv]

\* Its type, when the answer fits.
LEMMA AnswerObject ==
  ASSUME NEW o \in Object, InBuffers(o), NEW w \in Seq(Byte), Len(w) <= WRITE_BUFFER_SIZE,
         NEW file, file \in {0} \cup Files, NEW toSend, toSend \in Nat,
         NEW iv \in IoVec
  PROVE  LET q == WithAnswer(o, w, file, toSend, iv)
         IN /\ q \in Object /\ InBuffers(q)
            /\ q.wbuf = w /\ q.file = file /\ q.toSend = toSend /\ q.iv = iv
            /\ q.haveSend = o.haveSend /\ q.linger = o.linger
<1> DEFINE q == [o EXCEPT !.wbuf = w, !.file = file, !.toSend = toSend, !.iv = iv]
<1>1. q \in Object
  BY DEF Object
<1>2. /\ q.wbuf = w /\ q.file = file /\ q.toSend = toSend /\ q.iv = iv
      /\ q.haveSend = o.haveSend /\ q.linger = o.linger
      /\ q.read = o.read /\ q.start = o.start /\ q.checked = o.checked
  BY DEF Object
<1> HIDE DEF q
<1>3. InBuffers(q)
  BY <1>2 DEF InBuffers
<1> QED
  BY <1>1, <1>2, <1>3 DEF q, WithAnswer

\* The object after process_write() for a file.
LEMMA WriteFileIs ==
  ASSUME NEW o \in Object, InBuffers(o), o.url \in Files
  PROVE  LET q == WriteFile(o)
         IN /\ q \in Object /\ InBuffers(q)
            /\ q.wbuf = AddHeader(o.wbuf, Header("FILE_REQUEST", o.linger))
            /\ q.file = o.url /\ q.toSend = Len(q.wbuf) + FILE_LEN /\ q.toSend # 0
            /\ q.haveSend = o.haveSend /\ q.linger = o.linger
            /\ q.iv = [base0 |-> 0, len0 |-> Len(q.wbuf), base1 |-> 0, len1 |-> FILE_LEN, count |-> 2]
<1> DEFINE w == AddHeader(o.wbuf, Header("FILE_REQUEST", o.linger))
           iv == [base0 |-> 0, len0 |-> Len(w), base1 |-> 0, len1 |-> FILE_LEN, count |-> 2]
           q == WithAnswer(o, w, o.url, Len(w) + FILE_LEN, iv)
<1>1. WriteFile(o) = q
  BY DEF WriteFile, WithAnswer
<1>2. /\ o.wbuf \in Seq(Byte) /\ Len(o.wbuf) <= WRITE_BUFFER_SIZE /\ o.linger \in BOOLEAN
      /\ "FILE_REQUEST" \in AnswerCodes
  BY DEF Object, InBuffers, AnswerCodes
<1>3. w \in Seq(Byte) /\ Len(w) <= WRITE_BUFFER_SIZE
  BY <1>2, AddHeaderTyped
<1> HIDE DEF w
<1>4. FILE_LEN \in Nat /\ FILE_LEN # 0 /\ Len(w) \in Nat
  BY <1>3, ConnectionAssumption, LenProperties
<1>5. Len(w) + FILE_LEN \in Nat /\ Len(w) + FILE_LEN # 0
  BY <1>4
<1>6. iv \in IoVec
  BY <1>4 DEF IoVec
<1>8. o.url \in {0} \cup Files
  OBVIOUS
<1> HIDE DEF iv
<1>7. /\ q \in Object /\ InBuffers(q)
      /\ q.wbuf = w /\ q.file = o.url /\ q.toSend = Len(w) + FILE_LEN /\ q.iv = iv
      /\ q.haveSend = o.haveSend /\ q.linger = o.linger
  BY <1>3, <1>5, <1>6, <1>8, AnswerObject
<1> HIDE DEF q
<1> QED
  BY <1>1, <1>5, <1>7 DEF w, iv

\* m_iv is set to one buffer of n bytes.
LEMMA ErrorIoVec ==
  ASSUME NEW v \in IoVec, NEW n \in Nat
  PROVE  [v EXCEPT !.base0 = 0, !.len0 = n, !.count = 1] \in IoVec
  BY DEF IoVec

\* The object after process_write() for an error.
LEMMA WriteErrorIs ==
  ASSUME NEW o \in Object, InBuffers(o), NEW code \in AnswerCodes
  PROVE  LET q == WriteError(o, code)
         IN /\ q \in Object /\ InBuffers(q)
            /\ q.file = o.file /\ q.toSend = o.toSend
<1> DEFINE h == AddHeader(o.wbuf, Header(code, o.linger))
           w == add_response(h, Content(code))
           iv == [o.iv EXCEPT !.base0 = 0, !.len0 = Len(w), !.count = 1]
           q == WithAnswer(o, w, o.file, o.toSend, iv)
<1>1. WriteError(o, code) = q
  BY DEF WriteError, WithAnswer, Object
<1>2. /\ o.wbuf \in Seq(Byte) /\ Len(o.wbuf) <= WRITE_BUFFER_SIZE /\ o.linger \in BOOLEAN
  BY DEF Object, InBuffers
<1>3. h \in Seq(Byte) /\ Len(h) <= WRITE_BUFFER_SIZE
  BY <1>2, AddHeaderTyped
<1>4. Content(code) \in Byte
  BY <1>2, HeaderTyped
<1> HIDE DEF h
<1>5. w \in Seq(Byte) /\ Len(w) <= WRITE_BUFFER_SIZE
  BY <1>3, <1>4, AddResponseTyped
<1> HIDE DEF w
<1>6. Len(w) \in Nat
  BY <1>5, LenProperties
<1>7. iv \in IoVec
  <2>1. o.iv \in IoVec
    BY DEF Object
  <2> QED
    BY <1>6, <2>1, ErrorIoVec
<1> HIDE DEF iv
<1>8. o.file \in {0} \cup Files /\ o.toSend \in Nat
  BY DEF Object
<1>9. q \in Object /\ InBuffers(q) /\ q.file = o.file /\ q.toSend = o.toSend
  BY <1>5, <1>7, <1>8, AnswerObject
<1> HIDE DEF q
<1> QED
  BY <1>1, <1>9

\* What do_request() finds: a file, a directory or nothing.
LEMMA DoRequest ==
  ASSUME NEW o
  PROVE  /\ do_request(o) \in AnswerCodes
         /\ do_request(o) = "FILE_REQUEST" => o.url \in Files
  BY DEF do_request, AnswerCodes

\* An answer that has been built, and that is the one the bytes read so far ask
\* for, keeps the invariant.
LEMMA ReplyCorrect ==
  ASSUME ConnectionInvariant, at = "parse", NEW o \in Object, InBuffers(o),
         NEW code \in AnswerCodes, code = "FILE_REQUEST" => o.url \in Files,
         o.file = obj.file, o.toSend = obj.toSend,
         o.wbuf = obj.wbuf, o.haveSend = obj.haveSend,
         fresh => [code |-> code, url |-> o.url, linger |-> o.linger] = Request(Current),
         Reply(o, code)
  PROVE  ConnectionInvariant'
<1> DEFINE a == [code |-> code, url |-> o.url, linger |-> o.linger]
<1>1. TypeOK /\ WriteInvariant
  BY DEF ConnectionInvariant
<1>2. /\ ans' = a /\ out' = <<>> /\ cut' = 0
      /\ ls' = ls /\ conn' = conn /\ stream' = stream /\ fresh' = fresh
      /\ pos' = pos /\ base' = base /\ split' = split
  BY DEF Reply, client, turn
<1>3. code = "FILE_REQUEST" => obj' = WriteFile(o) /\ at' = "out"
  BY DEF Reply
<1>4. code # "FILE_REQUEST" => obj' = WriteError(o, code) /\ at' = IF NoRoom(o, code) THEN "closed" ELSE "out"
  BY DEF Reply
<1>5. at' = "out" \/ at' = "closed"
  BY <1>3, <1>4
<1>6. a \in [code : AnswerCodes, url : Int, linger : BOOLEAN] /\ a.code = code /\ a.linger = o.linger
  BY DEF Object
<1>7. a # NoAnswer
  BY DEF AnswerCodes, NoAnswer
<1>8. a \in [code : Codes, url : Int, linger : BOOLEAN]
  BY DEF Object, Codes, AnswerCodes
<1>9. obj' \in Object /\ InBuffers(obj')
  <2>1. CASE code = "FILE_REQUEST"
    BY <1>3, <2>1, WriteFileIs
  <2>2. CASE code # "FILE_REQUEST"
    BY <1>4, <2>2, WriteErrorIs
  <2> QED
    BY <2>1, <2>2
<1>10. TypeOK'
  <2>1. out' \in Seq(Byte) /\ cut' \in Nat
    BY <1>2
  <2>2. ans' \in [code : Codes, url : Int, linger : BOOLEAN]
    BY <1>2, <1>8
  <2>3. (InBuffers(obj))'
    BY <1>9 DEF InBuffers
  <2> HIDE DEF a
  <2> QED
    BY <1>1, <1>2, <1>5, <1>9, <2>1, <2>2, <2>3 DEF TypeOK
<1>11. ParseInvariant'
  BY <1>5 DEF ParseInvariant
<1>12. SplitIndependent'
  <2>1. Current' = Current
    BY <1>2 DEF Current
  <2>2. fresh => a = Request(Current)
    OBVIOUS
  <2>3. Request(Current)' = Request(Current)
    BY <2>1
  <2> HIDE DEF a
  <2> QED
    BY <1>2, <2>2, <2>3 DEF SplitIndependent
<1>13. SentInOrder'
  <2>1. AnswerTo(a) \in Seq(Byte)
    BY <1>6, AnswerTyped
  <2> HIDE DEF a
  <2>2. Len(<<>>) <= Len(AnswerTo(a)) /\ SubSeq(<<>>, 1, 0) = <<>> /\ SubSeq(AnswerTo(a), 1, 0) = <<>>
    BY <2>1, SubSeqEmpty, LenProperties
  <2>3. Len(<<>>) = 0
    OBVIOUS
  <2>4. IsPrefix(<<>>, AnswerTo(a))
    BY <2>2, <2>3 DEF IsPrefix
  <2> QED
    BY <1>2, <2>4 DEF SentInOrder, Answer
<1>14. AnswerComplete'
  BY <1>5 DEF AnswerComplete
<1>15. WriteInvariant'
  <2>1. ASSUME fresh PROVE o.wbuf = <<>> /\ o.toSend = 0 /\ o.haveSend = 0
    BY <1>1, <2>1 DEF WriteInvariant
  <2>2. (obj.file # 0 => obj.toSend # 0)'
    <3>1. CASE code = "FILE_REQUEST"
      BY <1>3, <3>1, WriteFileIs
    <3>2. CASE code # "FILE_REQUEST"
      BY <1>1, <1>4, <3>2, WriteErrorIs DEF WriteInvariant
    <3> QED
      BY <3>1, <3>2
  <2>3. ASSUME fresh, at' = "out" PROVE Writing'
    <3>1. ASSUME code # "FILE_REQUEST" PROVE Writing'
      <4>1. obj'.toSend = 0
        BY <1>4, <2>1, <2>3, <3>1, WriteErrorIs
      <4> QED
        BY <1>2, <1>6, <1>7, <2>3, <3>1, <4>1 DEF Writing
    <3>2. ASSUME code = "FILE_REQUEST" PROVE Writing'
      <4> DEFINE h == Header(code, o.linger)
      <4>1. o.linger \in BOOLEAN
        BY DEF Object
      <4>2. AddHeader(<<>>, h) = h /\ Len(h) = HEADER_LEN
        BY <4>1, AddHeaderWhole, HeaderTyped
      <4> HIDE DEF h
      <4>3. obj' = WriteFile(o) /\ o.wbuf = <<>> /\ o.haveSend = 0 /\ o.url \in Files
        BY <1>3, <2>1, <2>3, <3>2
      <4>4. /\ obj'.wbuf = h /\ obj'.file = o.url /\ obj'.toSend = HEADER_LEN + FILE_LEN
            /\ obj'.haveSend = 0 /\ obj'.linger = o.linger
            /\ obj'.iv = [base0 |-> 0, len0 |-> HEADER_LEN, base1 |-> 0, len1 |-> FILE_LEN, count |-> 2]
        <5> DEFINE q == WriteFile(o)
        <5>1. /\ q.wbuf = AddHeader(o.wbuf, Header("FILE_REQUEST", o.linger))
              /\ q.file = o.url /\ q.toSend = Len(q.wbuf) + FILE_LEN
              /\ q.haveSend = o.haveSend /\ q.linger = o.linger
              /\ q.iv = [base0 |-> 0, len0 |-> Len(q.wbuf), base1 |-> 0, len1 |-> FILE_LEN, count |-> 2]
          BY <4>3, WriteFileIs
        <5>2. AddHeader(o.wbuf, Header("FILE_REQUEST", o.linger)) = h
          BY <3>2, <4>2, <4>3 DEF h
        <5> HIDE DEF q
        <5>3. q.wbuf = h /\ Len(q.wbuf) = HEADER_LEN
          BY <4>2, <5>1, <5>2
        <5> QED
          BY <4>3, <5>1, <5>3 DEF q
      <4>5. HEADER_LEN = 5 /\ FILE_LEN \in Nat /\ FILE_LEN # 0
        BY ConnectionAssumption DEF HEADER_LEN
      <4>6. ans'.code = code /\ ans'.url = o.url /\ ans'.linger = o.linger
        BY <1>2
      <4>7. Described'
        <5>1. SubSeq(Answer', 1, 0) = <<>>
          BY SubSeqEmpty
        <5>2. out' = SubSeq(Answer', 1, obj'.haveSend)
          BY <1>2, <4>4, <5>1
        <5> QED
          BY <1>2, <4>4, <4>5, <5>2 DEF Described
      <4>8. obj'.wbuf = Header(ans'.code, ans'.linger)
        BY <4>4, <4>6 DEF h
      <4> QED
        BY <3>2, <4>4, <4>5, <4>6, <4>7, <4>8 DEF Writing
    <3> QED
      BY <3>1, <3>2
  <2> QED
    BY <1>2, <1>5, <2>2, <2>3 DEF WriteInvariant
<1> QED
  BY <1>10, <1>11, <1>12, <1>13, <1>14, <1>15 DEF ConnectionInvariant

-----------------------------------------------------------------------------
(* process_read().                                                          *)

\* A step of the parser that gives no result keeps the invariant when what has
\* been parsed is what the bytes say.
LEMMA ParseGoesOn ==
  ASSUME ConnectionInvariant, at = "parse", NEW o \in Object, InBuffers(o),
         o.file = obj.file, o.toSend = obj.toSend,
         o.wbuf = obj.wbuf, o.haveSend = obj.haveSend,
         obj' = o, ls' \in {"LINE_OK", "LINE_OPEN", "LINE_BAD"}, at' = "in" \/ at' = "parse",
         UNCHANGED <<client, pos, turn, ans, out, cut>>,
         fresh => Parsed(Current)',
         fresh /\ at' = "in" /\ o.state # "CONTENT" => \A i \in Eols(Current) : i < o.start
  PROVE  ConnectionInvariant'
<1>1. TypeOK /\ ParseInvariant /\ WriteInvariant /\ SentInOrder
  BY DEF ConnectionInvariant
<1>2. /\ conn' = conn /\ stream' = stream /\ fresh' = fresh
      /\ pos' = pos /\ base' = base /\ split' = split
      /\ ans' = ans /\ out' = out /\ cut' = cut
  BY DEF client, turn
<1>3. TypeOK'
  <2>1. (InBuffers(obj))'
    OBVIOUS
  <2> QED
    BY <1>1, <1>2, <2>1 DEF TypeOK
<1>4. fresh => base < pos
  BY <1>1 DEF ParseInvariant
<1>5. ParseInvariant'
  <2>1. Current' = Current
    BY <1>2 DEF Current
  <2>2. Eols(Current)' = Eols(Current)
    BY <2>1
  <2> QED
    BY <1>2, <1>4, <2>2 DEF ParseInvariant
<1>6. WriteInvariant'
  BY <1>1, <1>2 DEF WriteInvariant
<1>7. SplitIndependent'
  BY DEF SplitIndependent
<1>8. SentInOrder'
  BY <1>1, <1>2 DEF SentInOrder, Answer
<1>9. AnswerComplete'
  <2>1. base \in Nat /\ pos \in Nat
    BY <1>1 DEF TypeOK
  <2>2. fresh => pos # base
    BY <1>4, <2>1
  <2> QED
    BY <1>2, <2>2 DEF AnswerComplete
<1> QED
  BY <1>3, <1>5, <1>6, <1>7, <1>8, <1>9 DEF ConnectionInvariant

\* The text of a line is a sequence of bytes.
LEMMA GetLineTyped ==
  ASSUME NEW q \in Object, InBuffers(q)
  PROVE  get_line(q) \in Seq(Byte)
<1>1. /\ q.read \in Seq(Byte) /\ q.start \in Nat /\ q.checked \in Nat /\ q.checked <= Len(q.read)
      /\ Len(q.read) \in Nat
  BY LenProperties DEF Object, InBuffers
<1>2. \A i \in q.start + 1 .. q.checked - 2 : q.read[i] \in Byte
  BY <1>1, ElementOfSeq
<1> QED
  BY <1>1, <1>2, SubSeqProperties DEF get_line

\* What LineTaken leaves alone, as the lemmas on steps need it.
LEMMA TakenFacts ==
  ASSUME ConnectionInvariant
  PROVE  LET o == LineTaken(obj)
         IN /\ o \in Object /\ InBuffers(o) /\ Len(o.read) = Len(obj.read)
            /\ o.file = obj.file /\ o.toSend = obj.toSend
            /\ o.wbuf = obj.wbuf /\ o.haveSend = obj.haveSend
            /\ o.state = obj.state /\ o.url = obj.url /\ o.linger = obj.linger /\ o.clen = obj.clen
            /\ o.start = o.checked /\ obj.checked <= o.checked
            /\ get_line(parse_line(obj).obj) \in Seq(Byte)
<1>1. obj \in Object /\ InBuffers(obj)
  BY DEF ConnectionInvariant, TypeOK
<1>2. get_line(parse_line(obj).obj) \in Seq(Byte)
  BY <1>1, ParseLineTyped, GetLineTyped
<1> QED
  BY <1>1, <1>2, LineTakenTyped DEF SameButLine

\* While lines are read, what ParseInvariant says.
LEMMA FreshParse ==
  ASSUME ConnectionInvariant, fresh, at = "in" \/ at = "parse"
  PROVE  Parsed(Current) /\ Current \in Seq(Byte) /\ obj \in Object /\ InBuffers(obj)
  BY CurrentIs DEF ConnectionInvariant, ParseInvariant, TypeOK

\* parse_line() finds no further line.
LEMMA LineOpenCorrect ==
  ASSUME ConnectionInvariant, LineOpen
  PROVE  ConnectionInvariant'
<1> DEFINE p == parse_line(obj)
           o == p.obj
           b == Current
<1>1. obj \in Object /\ InBuffers(obj) /\ ls \in {"LINE_OK", "LINE_OPEN", "LINE_BAD"}
  BY DEF ConnectionInvariant, TypeOK
<1>2. /\ at = "parse" /\ ~(obj.state = "CONTENT" /\ ls = "LINE_OK")
      /\ p.status # "LINE_OK" /\ obj' = o /\ ls' = p.status /\ at' = "in"
      /\ UNCHANGED <<client, pos, turn, ans, out, cut>>
  BY DEF LineOpen, Calls
<1>3. /\ p.status \in {"LINE_OK", "LINE_OPEN", "LINE_BAD"}
      /\ o \in Object /\ InBuffers(o) /\ Len(o.read) = Len(obj.read) /\ obj.checked <= o.checked
      /\ o = [obj EXCEPT !.read = o.read, !.checked = o.checked]
  BY <1>1, ParseLineTyped
<1>4. ASSUME fresh PROVE Parsed(b) /\ b \in Seq(Byte)
  BY <1>2, <1>4, FreshParse
<1>5. ASSUME fresh, obj.state # "CONTENT"
      PROVE  ReadingLines(o, b) /\ \A i \in Eols(b) : i < obj.start
  <2>1. ReadingLines(obj, b)
    BY <1>1, <1>4, <1>5 DEF Parsed, Object
  <2> QED
    BY <1>1, <1>2, <1>4, <1>5, <2>1, NoLineFound
<1>6. b' = b /\ split' = split
  BY <1>2 DEF Current, client, turn
<1> HIDE DEF p, o
<1>7. /\ o.file = obj.file /\ o.toSend = obj.toSend /\ o.wbuf = obj.wbuf /\ o.haveSend = obj.haveSend
      /\ o.state = obj.state /\ o.url = obj.url /\ o.linger = obj.linger /\ o.clen = obj.clen
      /\ o.start = obj.start
  BY <1>1, <1>3 DEF Object
<1> HIDE DEF b
<1>8. ASSUME fresh PROVE Parsed(b)'
  <2>1. CASE obj.state # "CONTENT"
    <3>1. /\ Len(o.read) = Len(b)
          /\ o.state = "REQUESTLITE" =>
               /\ ReadingLines(o, b) /\ o.start = 0
               /\ o.url = 0 /\ ~o.linger /\ o.clen = 0
          /\ o.state = "HEADER" =>
               /\ ReadingLines(o, b) /\ o.start > 0 /\ GotRequestLine(o, b)
               /\ \A i \in Blanks(b) : i >= o.start
               /\ o.clen = LengthTo(b, o.start) /\ (o.linger <=> LingerTo(b, o.start))
      BY <1>3, <1>4, <1>5, <1>7, <1>8, <2>1 DEF Parsed, GotRequestLine
    <3> QED
      BY <1>2, <1>6, <1>7, <2>1, <3>1 DEF Parsed
  <2>2. CASE obj.state = "CONTENT"
    <3>1. InBody(b) /\ Len(obj.read) = Len(b) /\ ls # "LINE_OK"
      BY <1>2, <1>4, <1>8, <2>2 DEF Parsed
    <3>2. BodyStart(b) \in Nat /\ obj.checked \in Nat /\ o.checked \in Nat
      <4>1. Blanks(b) # {}
        BY <3>1 DEF InBody
      <4>2. Min(Blanks(b)) \in Nat
        BY <1>4, <1>8, <4>1, EolsRange, MinProperties
      <4> QED
        BY <1>1, <1>3, <4>2 DEF Object, BodyStart
    <3>3. /\ GotRequestLine(o, b) /\ Blanks(b) # {}
          /\ o.clen = LengthTo(b, Min(Blanks(b))) /\ (o.linger <=> LingerTo(b, Min(Blanks(b))))
          /\ BodyStart(b) <= o.checked
      BY <1>3, <1>7, <3>1, <3>2 DEF InBody, GotRequestLine
    <3>4. ASSUME Len(b) >= BodyStart(b) + o.clen PROVE split /\ o.checked # BodyStart(b)
      <4>1. obj.checked # BodyStart(b) /\ split /\ BodyStart(b) <= obj.checked
        BY <1>7, <3>1, <3>4 DEF InBody
      <4> QED
        BY <1>3, <3>2, <4>1
    <3>5. InBody(b)'
      BY <1>2, <1>6, <3>3, <3>4 DEF InBody
    <3> QED
      BY <1>2, <1>3, <1>6, <1>7, <2>2, <3>1, <3>5 DEF Parsed
  <2> QED
    BY <2>1, <2>2
<1>9. fresh /\ o.state # "CONTENT" => \A i \in Eols(b) : i < o.start
  BY <1>5, <1>7
<1> QED
  BY <1>2, <1>3, <1>7, <1>8, <1>9, ParseGoesOn DEF b

\* An object with the members that the parser sets.
WithLine(o, state, url, linger, clen) ==
  [o EXCEPT !.state = state, !.url = url, !.linger = linger, !.clen = clen]

\* Its type, and what it leaves alone.
LEMMA LineObject ==
  ASSUME NEW o \in Object, InBuffers(o), NEW state, state \in {"HEADER", "CONTENT"},
         NEW url, url \in Int, NEW linger, linger \in BOOLEAN, NEW clen, clen \in Int
  PROVE  LET q == WithLine(o, state, url, linger, clen)
         IN /\ q \in Object /\ InBuffers(q)
            /\ q.state = state /\ q.url = url /\ q.linger = linger /\ q.clen = clen
            /\ q.read = o.read /\ q.start = o.start /\ q.checked = o.checked
            /\ q.file = o.file /\ q.toSend = o.toSend /\ q.wbuf = o.wbuf /\ q.haveSend = o.haveSend
<1> DEFINE q == [o EXCEPT !.state = state, !.url = url, !.linger = linger, !.clen = clen]
<1>1. q \in Object
  BY DEF Object
<1>2. /\ q.state = state /\ q.url = url /\ q.linger = linger /\ q.clen = clen
      /\ q.read = o.read /\ q.start = o.start /\ q.checked = o.checked
      /\ q.file = o.file /\ q.toSend = o.toSend /\ q.wbuf = o.wbuf /\ q.haveSend = o.haveSend
  BY DEF Object
<1> HIDE DEF q
<1>3. InBuffers(q)
  BY <1>2 DEF InBuffers
<1> QED
  BY <1>1, <1>2, <1>3 DEF q, WithLine

\* The request line: the first line of what has been read.
LEMMA RequestLineCorrect ==
  ASSUME ConnectionInvariant, RequestLine
  PROVE  ConnectionInvariant'
<1> DEFINE text == get_line(parse_line(obj).obj)
           o == LineTaken(obj)
           b == Current
<1>1. /\ at = "parse" /\ parse_line(obj).status = "LINE_OK" /\ obj.state = "REQUESTLITE"
      /\ IF IsGet(text)
           THEN GoOn([o EXCEPT !.url = text[1].v, !.state = "HEADER"], "LINE_OK")
           ELSE Reply(o, "BAD_REQUEST")
  BY DEF RequestLine, Calls, LineTaken, IsGet
<1>2. /\ o \in Object /\ InBuffers(o) /\ Len(o.read) = Len(obj.read)
      /\ o.file = obj.file /\ o.toSend = obj.toSend
      /\ o.wbuf = obj.wbuf /\ o.haveSend = obj.haveSend
      /\ o.state = obj.state /\ o.url = obj.url /\ o.linger = obj.linger /\ o.clen = obj.clen
      /\ o.start = o.checked /\ text \in Seq(Byte)
  BY TakenFacts
<1>3. ASSUME fresh
      PROVE  /\ b \in Seq(Byte) /\ Len(o.read) = Len(b) /\ ReadingLines(o, b) /\ o.start > 0
             /\ Eols(b) # {} /\ FirstLine(b) = text
             /\ \A j \in Blanks(b) : j >= o.start
             /\ LengthTo(b, o.start) = 0 /\ ~LingerTo(b, o.start)
             /\ obj.url = 0 /\ ~obj.linger /\ obj.clen = 0
  <2>1. Parsed(b) /\ b \in Seq(Byte) /\ obj \in Object /\ InBuffers(obj)
    BY <1>1, <1>3, FreshParse
  <2>2. /\ ReadingLines(obj, b) /\ obj.start = 0 /\ Len(obj.read) = Len(b)
        /\ obj.url = 0 /\ ~obj.linger /\ obj.clen = 0
    BY <1>1, <2>1 DEF Parsed
  <2>3. PICK i \in Eols(b) :
           /\ i \in Nat /\ obj.start < i /\ \A j \in Eols(b) : j < i => j < obj.start
           /\ text = Line(b, i) /\ o.start = i + 1 /\ ReadingLines(o, b)
    BY <1>1, <2>1, <2>2, NextLine
  <2> HIDE DEF o, text, b
  <2>4. \A j \in Eols(b) : ~(j < i)
    BY <2>1, <2>2, <2>3, EolsRange
  <2>5. /\ FirstLine(b) = Line(b, i) /\ LengthTo(b, i + 1) = 0 /\ ~LingerTo(b, i + 1)
        /\ \A j \in Blanks(b) : j >= i + 1
    BY <2>1, <2>4, FirstTaken
  <2>6. i + 1 > 0
    BY <2>3
  <2> QED
    BY <1>2, <2>1, <2>2, <2>3, <2>5, <2>6
<1> HIDE DEF o, text, b
<1>4. CASE IsGet(text)
  <2> DEFINE q == [o EXCEPT !.url = text[1].v, !.state = "HEADER"]
             e == WithLine(o, "HEADER", text[1].v, o.linger, o.clen)
  <2>1. text[1].v \in Int /\ o.linger \in BOOLEAN /\ o.clen \in Int
    <3>1. text[1] \in Byte
      <4>1. 1 \in 1 .. Len(text)
        BY <1>4 DEF IsGet
      <4> QED
        BY <1>2, <4>1, ElementOfSeq
    <3> QED
      BY <1>2, <3>1 DEF Byte, Object
  <2>2. q = e
    BY <1>2 DEF Object, WithLine
  <2>3. /\ e \in Object /\ InBuffers(e)
        /\ e.state = "HEADER" /\ e.url = text[1].v /\ e.linger = o.linger /\ e.clen = o.clen
        /\ e.read = o.read /\ e.start = o.start /\ e.checked = o.checked
        /\ e.file = o.file /\ e.toSend = o.toSend /\ e.wbuf = o.wbuf /\ e.haveSend = o.haveSend
    BY <1>2, <2>1, LineObject
  <2> HIDE DEF e
  <2>4. /\ obj' = e /\ ls' = "LINE_OK" /\ at' = "parse"
        /\ UNCHANGED <<client, pos, turn, ans, out, cut>>
    BY <1>1, <1>4, <2>2 DEF GoOn
  <2>5. b' = b
    BY <2>4 DEF b, Current, client, turn
  <2>6. ASSUME fresh PROVE Parsed(b)'
    <3>1. ReadingLines(e, b) /\ GotRequestLine(e, b)
      BY <1>3, <1>4, <2>3, <2>6 DEF ReadingLines, GotRequestLine
    <3> QED
      BY <1>2, <1>3, <2>3, <2>4, <2>5, <2>6, <3>1 DEF Parsed
  <2>7. ls' \in {"LINE_OK", "LINE_OPEN", "LINE_BAD"} /\ at' # "in"
    BY <2>4
  <2> QED
    BY <1>1, <1>2, <2>3, <2>4, <2>6, <2>7, ParseGoesOn DEF b
<1>5. CASE ~IsGet(text)
  <2>1. Reply(o, "BAD_REQUEST") /\ "BAD_REQUEST" \in AnswerCodes
    BY <1>1, <1>5 DEF AnswerCodes
  <2>2. ASSUME fresh
        PROVE  [code |-> "BAD_REQUEST", url |-> o.url, linger |-> o.linger] = Request(b)
    <3>1. Request(b) = [NoAnswer EXCEPT !.code = "BAD_REQUEST"]
      BY <1>3, <1>5, <2>2 DEF Request
    <3>2. o.url = 0 /\ o.linger = FALSE
      BY <1>2, <1>3, <2>2 DEF Object
    <3> QED
      BY <3>1, <3>2 DEF NoAnswer
  <2>3. "BAD_REQUEST" # "FILE_REQUEST"
    OBVIOUS
  <2> QED
    BY <1>1, <1>2, <2>1, <2>2, <2>3, ReplyCorrect DEF b
<1> QED
  BY <1>4, <1>5

\* What the bytes ask for, once the headers and the body are there.
LEMMA RequestIs ==
  ASSUME NEW b \in Seq(Byte), NEW o \in Object, GotRequestLine(o, b), Blanks(b) # {},
         o.clen = LengthTo(b, Min(Blanks(b))), o.linger <=> LingerTo(b, Min(Blanks(b))),
         Len(b) >= BodyStart(b) + o.clen
  PROVE  [code |-> do_request(o), url |-> o.url, linger |-> o.linger] = Request(b)
<1> DEFINE u == FirstLine(b)[1].v
           l == LingerTo(b, Min(Blanks(b)))
<1>1. Eols(b) # {} /\ IsGet(FirstLine(b)) /\ o.url = u
  BY DEF GotRequestLine
<1>2. ~(Len(b) < BodyStart(b) + LengthTo(b, Min(Blanks(b))))
  <2>1. Min(Blanks(b)) \in Nat
    BY EolsRange, MinProperties
  <2>2. BodyStart(b) + o.clen \in Int /\ Len(b) \in Nat
    BY <2>1, LenProperties DEF BodyStart, Object
  <2> HIDE DEF u, l
  <2> QED
    BY <2>2
<1>3. Request(b) = [code |-> do_request([url |-> u]), url |-> u, linger |-> l]
  BY <1>1, <1>2 DEF Request
<1>4. o.linger = l
  <2>1. o.linger \in BOOLEAN /\ l \in BOOLEAN
    BY DEF Object, LingerTo
  <2> QED
    BY <2>1
<1>5. do_request(o) = do_request([url |-> u])
  BY <1>1 DEF do_request
<1> HIDE DEF u, l
<1> QED
  BY <1>1, <1>3, <1>4, <1>5

\* A header, or the empty line behind the headers.
LEMMA HeaderLineCorrect ==
  ASSUME ConnectionInvariant, HeaderLine
  PROVE  ConnectionInvariant'
<1> DEFINE text == get_line(parse_line(obj).obj)
           o == LineTaken(obj)
           b == Current
           k == obj.start
<1>1. /\ at = "parse" /\ parse_line(obj).status = "LINE_OK" /\ obj.state = "HEADER"
      /\ IF text = <<>>
           THEN IF o.clen # 0 THEN GoOn([o EXCEPT !.state = "CONTENT"], "LINE_OK")
                              ELSE Reply(o, do_request(o))
           ELSE GoOn([o EXCEPT !.linger = @ \/ text = <<KeepAlive>>,
                               !.clen = IF text[1].t = "Content-Length" THEN text[1].v ELSE @],
                     "LINE_OK")
  BY DEF HeaderLine, Calls, LineTaken
<1>2. /\ o \in Object /\ InBuffers(o) /\ Len(o.read) = Len(obj.read)
      /\ o.file = obj.file /\ o.toSend = obj.toSend
      /\ o.wbuf = obj.wbuf /\ o.haveSend = obj.haveSend
      /\ o.state = obj.state /\ o.url = obj.url /\ o.linger = obj.linger /\ o.clen = obj.clen
      /\ o.start = o.checked /\ text \in Seq(Byte)
  BY TakenFacts
<1>3. ASSUME fresh
      PROVE  \E i \in Eols(b) :
             /\ i \in Nat /\ k \in Nat /\ k - 1 \in Eols(b) /\ k < i
             /\ \A j \in Eols(b) : j < i => j < k
             /\ text = Line(b, i) /\ o.start = i + 1
             /\ b \in Seq(Byte) /\ Len(o.read) = Len(b) /\ ReadingLines(o, b) /\ o.start > 0
             /\ GotRequestLine(o, b) /\ \A j \in Blanks(b) : j >= k
             /\ o.clen = LengthTo(b, k) /\ (o.linger <=> LingerTo(b, k))
  <2>1. Parsed(b) /\ b \in Seq(Byte) /\ obj \in Object /\ InBuffers(obj)
    BY <1>1, <1>3, FreshParse
  <2>2. /\ ReadingLines(obj, b) /\ obj.start > 0 /\ Len(obj.read) = Len(b)
        /\ GotRequestLine(obj, b) /\ \A j \in Blanks(b) : j >= obj.start
        /\ obj.clen = LengthTo(b, obj.start) /\ (obj.linger <=> LingerTo(b, obj.start))
    BY <1>1, <2>1 DEF Parsed
  <2>3. PICK i \in Eols(b) :
           /\ i \in Nat /\ obj.start < i /\ \A j \in Eols(b) : j < i => j < obj.start
           /\ text = Line(b, i) /\ o.start = i + 1 /\ ReadingLines(o, b)
    BY <1>1, <2>1, <2>2, NextLine
  <2>4. k \in Nat /\ k - 1 \in Eols(b)
    BY <2>1, <2>2 DEF ReadingLines, AtLine, Object
  <2>5. GotRequestLine(o, b)
    BY <1>2, <2>2 DEF GotRequestLine
  <2> HIDE DEF o, text, b, k
  <2>6. i + 1 > 0
    BY <2>3
  <2> QED
    BY <1>2, <2>1, <2>2, <2>3, <2>4, <2>5, <2>6 DEF k
<1> HIDE DEF o, text, b, k
<1>4. ASSUME text # <<>> PROVE ConnectionInvariant'
  <2> DEFINE linger == o.linger \/ text = <<KeepAlive>>
             clen == IF text[1].t = "Content-Length" THEN text[1].v ELSE o.clen
             e == WithLine(o, "HEADER", o.url, linger, clen)
  <2>1. [o EXCEPT !.linger = @ \/ text = <<KeepAlive>>,
                  !.clen = IF text[1].t = "Content-Length" THEN text[1].v ELSE @] = e
    BY <1>1, <1>2 DEF Object, WithLine
  <2>2. o.url \in Int /\ clen \in Int
    <3>1. 1 \in 1 .. Len(text)
      BY <1>2, <1>4, EmptySeq
    <3>2. text[1] \in Byte
      BY <1>2, <3>1, ElementOfSeq
    <3> QED
      BY <1>2, <3>2 DEF Byte, Object
  <2>3. linger \in BOOLEAN
    OBVIOUS
  <2>4. GoOn(e, "LINE_OK")
    BY <1>1, <1>4, <2>1
  <2> HIDE DEF linger, clen
  <2>5. /\ e \in Object /\ InBuffers(e)
        /\ e.state = "HEADER" /\ e.url = o.url /\ e.linger = linger /\ e.clen = clen
        /\ e.read = o.read /\ e.start = o.start /\ e.checked = o.checked
        /\ e.file = o.file /\ e.toSend = o.toSend /\ e.wbuf = o.wbuf /\ e.haveSend = o.haveSend
    BY <1>2, <2>2, <2>3, LineObject
  <2> HIDE DEF e
  <2>6. /\ obj' = e /\ ls' = "LINE_OK" /\ at' = "parse"
        /\ UNCHANGED <<client, pos, turn, ans, out, cut>>
    BY <1>1, <2>4 DEF GoOn
  <2>7. b' = b
    BY <2>6 DEF b, Current, client, turn
  <2>8. ASSUME fresh PROVE Parsed(b)'
    <3>1. PICK i \in Eols(b) :
             /\ i \in Nat /\ k \in Nat /\ k - 1 \in Eols(b) /\ k < i
             /\ \A j \in Eols(b) : j < i => j < k
             /\ text = Line(b, i) /\ o.start = i + 1
             /\ b \in Seq(Byte) /\ Len(o.read) = Len(b) /\ ReadingLines(o, b) /\ o.start > 0
             /\ GotRequestLine(o, b) /\ \A j \in Blanks(b) : j >= k
             /\ o.clen = LengthTo(b, k) /\ (o.linger <=> LingerTo(b, k))
      BY <1>3, <2>8
    <3>2. /\ LengthTo(b, i + 1) = IF text[1].t = "Content-Length" THEN text[1].v ELSE LengthTo(b, k)
          /\ LingerTo(b, i + 1) <=> LingerTo(b, k) \/ text = <<KeepAlive>>
      BY <3>1, HeaderTaken
    <3>3. e.clen = LengthTo(b, e.start)
      BY <2>5, <3>1, <3>2 DEF clen
    <3>4. e.linger <=> LingerTo(b, e.start)
      BY <2>5, <3>1, <3>2 DEF linger
    <3>5. ReadingLines(e, b) /\ GotRequestLine(e, b)
      BY <2>5, <3>1 DEF ReadingLines, GotRequestLine
    <3>6. ASSUME NEW j \in Blanks(b) PROVE j >= e.start
      <4>1. j \in Eols(b) /\ j \in Nat /\ j >= k
        BY <3>1, EolsRange
      <4>2. j # i
        BY <1>4, <3>1 DEF Blanks
      <4>3. ~(j < i)
        BY <3>1, <4>1
      <4> QED
        BY <2>5, <3>1, <4>1, <4>2, <4>3
    <3> QED
      BY <2>5, <2>6, <2>7, <3>1, <3>3, <3>4, <3>5, <3>6 DEF Parsed
  <2>9. ls' \in {"LINE_OK", "LINE_OPEN", "LINE_BAD"} /\ at' # "in"
    BY <2>6
  <2> QED
    BY <1>1, <1>2, <2>5, <2>6, <2>8, <2>9, ParseGoesOn DEF b
<1>5. ASSUME text = <<>>, fresh
      PROVE  /\ b \in Seq(Byte) /\ Len(o.read) = Len(b) /\ GotRequestLine(o, b)
             /\ Blanks(b) # {} /\ o.checked = BodyStart(b) /\ BodyStart(b) \in Nat
             /\ BodyStart(b) <= Len(b)
             /\ o.clen = LengthTo(b, Min(Blanks(b)))
             /\ (o.linger <=> LingerTo(b, Min(Blanks(b))))
  <2>1. PICK i \in Eols(b) :
           /\ i \in Nat /\ k \in Nat /\ k - 1 \in Eols(b) /\ k < i
           /\ \A j \in Eols(b) : j < i => j < k
           /\ text = Line(b, i) /\ o.start = i + 1
           /\ b \in Seq(Byte) /\ Len(o.read) = Len(b) /\ ReadingLines(o, b) /\ o.start > 0
           /\ GotRequestLine(o, b) /\ \A j \in Blanks(b) : j >= k
           /\ o.clen = LengthTo(b, k) /\ (o.linger <=> LingerTo(b, k))
    BY <1>3, <1>5
  <2>2. /\ Blanks(b) # {} /\ Min(Blanks(b)) = i /\ BodyStart(b) = i + 1
        /\ LengthTo(b, i) = LengthTo(b, k) /\ (LingerTo(b, i) <=> LingerTo(b, k))
    BY <1>5, <2>1, BlankTaken
  <2>3. i < Len(b) /\ Len(b) \in Nat
    BY <2>1, EolsRange, LenProperties
  <2>4. BodyStart(b) \in Nat /\ BodyStart(b) <= Len(b)
    BY <2>1, <2>2, <2>3
  <2> QED
    BY <1>2, <2>1, <2>2, <2>4
<1>6. ASSUME text = <<>>, o.clen # 0 PROVE ConnectionInvariant'
  <2> DEFINE e == WithLine(o, "CONTENT", o.url, o.linger, o.clen)
  <2>1. [o EXCEPT !.state = "CONTENT"] = e
    BY <1>2 DEF Object, WithLine
  <2>2. o.url \in Int /\ o.linger \in BOOLEAN /\ o.clen \in Int
    BY <1>2 DEF Object
  <2>3. /\ e \in Object /\ InBuffers(e)
        /\ e.state = "CONTENT" /\ e.url = o.url /\ e.linger = o.linger /\ e.clen = o.clen
        /\ e.read = o.read /\ e.start = o.start /\ e.checked = o.checked
        /\ e.file = o.file /\ e.toSend = o.toSend /\ e.wbuf = o.wbuf /\ e.haveSend = o.haveSend
    BY <1>2, <2>2, LineObject
  <2> HIDE DEF e
  <2>4. /\ obj' = e /\ ls' = "LINE_OK" /\ at' = "parse"
        /\ UNCHANGED <<client, pos, turn, ans, out, cut>>
    BY <1>1, <1>6, <2>1 DEF GoOn
  <2>5. b' = b
    BY <2>4 DEF b, Current, client, turn
  <2>6. ASSUME fresh PROVE Parsed(b)'
    <3>1. GotRequestLine(e, b) /\ BodyStart(b) <= e.checked /\ e.checked = BodyStart(b)
      BY <1>5, <1>6, <2>3, <2>6 DEF GotRequestLine
    <3>2. InBody(b)'
      BY <1>5, <1>6, <2>3, <2>4, <2>5, <2>6, <3>1 DEF InBody
    <3> QED
      BY <1>5, <1>6, <2>3, <2>4, <2>5, <2>6, <3>2 DEF Parsed
  <2>7. ls' \in {"LINE_OK", "LINE_OPEN", "LINE_BAD"} /\ at' # "in"
    BY <2>4
  <2> QED
    BY <1>1, <1>2, <2>3, <2>4, <2>6, <2>7, ParseGoesOn DEF b
<1>7. ASSUME text = <<>>, o.clen = 0 PROVE ConnectionInvariant'
  <2>1. Reply(o, do_request(o))
    BY <1>1, <1>7
  <2>2. do_request(o) \in AnswerCodes /\ (do_request(o) = "FILE_REQUEST" => o.url \in Files)
    BY DoRequest
  <2>3. ASSUME fresh
        PROVE  [code |-> do_request(o), url |-> o.url, linger |-> o.linger] = Request(b)
    <3>1. Len(b) >= BodyStart(b) + o.clen
      BY <1>5, <1>7, <2>3, LenProperties
    <3> QED
      BY <1>2, <1>5, <1>7, <2>3, <3>1, RequestIs
  <2> QED
    BY <1>1, <1>2, <2>1, <2>2, <2>3, ReplyCorrect DEF b
<1> QED
  BY <1>4, <1>6, <1>7

\* m_start_line moves to m_checked_index, and a byte of the body may be replaced.
LEMMA BodyObject ==
  ASSUME NEW o \in Object, InBuffers(o), NEW z
  PROVE  LET q == [o EXCEPT !.start = o.checked]
             r == [o EXCEPT !.read[z] = NUL]
         IN /\ q \in Object /\ InBuffers(q) /\ SameButLine(o, q)
            /\ q.read = o.read /\ q.checked = o.checked /\ q.start = o.checked
            /\ z \in DOMAIN o.read => r \in Object /\ InBuffers(r) /\ SameButLine(o, r)
<1> DEFINE q == [o EXCEPT !.start = o.checked]
           r == [o EXCEPT !.read[z] = NUL]
<1>1. o.checked \in Nat /\ o.read \in Seq(Byte) /\ o.start \in Nat
  BY DEF Object
<1>2. q \in Object
  BY <1>1 DEF Object
<1>3. q.read = o.read /\ q.checked = o.checked /\ q.start = o.checked /\ q.wbuf = o.wbuf
  BY DEF Object
<1>4. SameButLine(o, q)
  BY DEF SameButLine, Object
<1>5. InBuffers(q)
  <2> HIDE DEF q
  <2> QED
    BY <1>1, <1>3 DEF InBuffers
<1>6. ASSUME z \in DOMAIN o.read PROVE r \in Object /\ InBuffers(r) /\ SameButLine(o, r)
  <2> DEFINE s == [o.read EXCEPT ![z] = NUL]
  <2>1. z \in 1 .. Len(o.read)
    BY <1>1, <1>6, LenProperties
  <2>2. s \in Seq(Byte) /\ Len(s) = Len(o.read)
    BY <1>1, <2>1, BytesDiffer, ExceptSeq
  <2>3. r = [o EXCEPT !.read = s]
    OBVIOUS
  <2> HIDE DEF s
  <2>4. r \in Object
    BY <2>2, <2>3 DEF Object
  <2>5. r.read = s /\ r.checked = o.checked /\ r.start = o.start /\ r.wbuf = o.wbuf
    BY <2>3 DEF Object
  <2>6. SameButLine(o, r)
    BY <2>3 DEF SameButLine, Object
  <2> HIDE DEF r
  <2>7. InBuffers(r)
    BY <1>1, <2>2, <2>5 DEF InBuffers
  <2> QED
    BY <2>4, <2>6, <2>7
<1> HIDE DEF q, r
<1> QED
  BY <1>2, <1>3, <1>4, <1>5, <1>6 DEF q, r

\* The body: answered when it is there, looked at again otherwise.
LEMMA BodyCorrect ==
  ASSUME ConnectionInvariant, Body
  PROVE  ConnectionInvariant'
<1> DEFINE p == IF Calls THEN parse_line(obj) ELSE [status |-> "LINE_OK", obj |-> obj]
           o == [p.obj EXCEPT !.start = p.obj.checked]
           z == obj.start + o.clen + 1
           r == IF z \in DOMAIN o.read THEN [o EXCEPT !.read[z] = NUL] ELSE o
           b == Current
<1>1. /\ at = "parse" /\ obj.state = "CONTENT"
      /\ IF Enough(o) THEN Reply(r, do_request(o)) ELSE GoOn(o, "LINE_OPEN")
  BY DEF Body
<1>2. obj \in Object /\ InBuffers(obj)
  BY DEF ConnectionInvariant, TypeOK
<1>3. /\ o \in Object /\ InBuffers(o) /\ Len(o.read) = Len(obj.read) /\ SameButLine(obj, o)
      /\ obj.checked <= o.checked /\ (~Calls => o.checked = obj.checked)
  <2>1. CASE Calls
    <3>1. o = LineTaken(obj)
      BY <2>1 DEF LineTaken
    <3> HIDE DEF o
    <3> QED
      BY <1>2, <2>1, <3>1, LineTakenTyped
  <2>2. CASE ~Calls
    <3> DEFINE e == [obj EXCEPT !.start = obj.checked]
    <3>1. o = e
      BY <2>2
    <3>2. /\ e \in Object /\ InBuffers(e) /\ SameButLine(obj, e)
          /\ e.read = obj.read /\ e.checked = obj.checked
      BY <1>2, BodyObject
    <3>3. obj.checked \in Nat
      BY <1>2 DEF Object
    <3> HIDE DEF o, e
    <3> QED
      BY <3>1, <3>2, <3>3
  <2> QED
    BY <2>1, <2>2
<1> HIDE DEF p, o
<1>4. r \in Object /\ InBuffers(r) /\ SameButLine(o, r)
  <2>1. CASE z \in DOMAIN o.read
    <3> HIDE DEF z
    <3> QED
      BY <1>3, <2>1, BodyObject
  <2>2. CASE z \notin DOMAIN o.read
    BY <1>3, <2>2 DEF SameButLine
  <2> QED
    BY <2>1, <2>2
<1> HIDE DEF z, r
<1>5. ASSUME fresh
      PROVE  /\ b \in Seq(Byte) /\ Len(o.read) = Len(b) /\ InBody(b)
             /\ BodyStart(b) \in Nat /\ Len(b) \in Nat /\ o.clen \in Int /\ o.checked \in Nat
             /\ obj.checked \in Nat /\ obj.clen = o.clen
             /\ GotRequestLine(o, b) /\ Blanks(b) # {}
             /\ o.clen = LengthTo(b, Min(Blanks(b))) /\ (o.linger <=> LingerTo(b, Min(Blanks(b))))
             /\ BodyStart(b) <= o.checked
  <2>1. Parsed(b) /\ b \in Seq(Byte)
    BY <1>1, <1>5, FreshParse
  <2>2. InBody(b) /\ Len(obj.read) = Len(b)
    BY <1>1, <2>1 DEF Parsed
  <2>3. Min(Blanks(b)) \in Nat
    <3>1. Blanks(b) # {}
      BY <2>2 DEF InBody
    <3>2. Blanks(b) \in SUBSET Nat
      BY <2>1, EolsRange
    <3> QED
      BY <3>1, <3>2, MinProperties
  <2>4. BodyStart(b) \in Nat /\ Len(b) \in Nat /\ o.clen \in Int /\ o.checked \in Nat /\ obj.checked \in Nat
    BY <1>2, <1>3, <2>1, <2>3, LenProperties DEF BodyStart, Object
  <2> HIDE DEF b
  <2>5. /\ GotRequestLine(o, b) /\ Blanks(b) # {} /\ obj.clen = o.clen
        /\ o.clen = LengthTo(b, Min(Blanks(b))) /\ (o.linger <=> LingerTo(b, Min(Blanks(b))))
    BY <1>3, <2>2 DEF InBody, GotRequestLine, SameButLine
  <2>6. BodyStart(b) <= o.checked
    BY <1>3, <2>2, <2>4 DEF InBody
  <2> QED
    BY <1>3, <2>1, <2>2, <2>4, <2>5, <2>6
<1> HIDE DEF b
<1>6. ASSUME Enough(o) PROVE ConnectionInvariant'
  <2>1. Reply(r, do_request(o)) /\ r.url = o.url /\ r.linger = o.linger
    BY <1>1, <1>4, <1>6 DEF SameButLine
  <2>2. do_request(o) \in AnswerCodes /\ (do_request(o) = "FILE_REQUEST" => r.url \in Files)
    BY <2>1, DoRequest
  <2>3. r.file = obj.file /\ r.toSend = obj.toSend /\ r.wbuf = obj.wbuf /\ r.haveSend = obj.haveSend
    BY <1>3, <1>4 DEF SameButLine
  <2>4. ASSUME fresh
        PROVE  [code |-> do_request(o), url |-> r.url, linger |-> r.linger] = Request(b)
    <3>1. Len(b) >= BodyStart(b) + o.clen
      BY <1>5, <1>6, <2>4 DEF Enough
    <3> QED
      BY <1>3, <1>5, <2>1, <2>4, <3>1, RequestIs
  <2> QED
    BY <1>1, <1>4, <2>1, <2>2, <2>3, <2>4, ReplyCorrect DEF b
<1>7. ASSUME ~Enough(o) PROVE ConnectionInvariant'
  <2>1. /\ obj' = o /\ ls' = "LINE_OPEN" /\ at' = "parse"
        /\ UNCHANGED <<client, pos, turn, ans, out, cut>>
    BY <1>1, <1>7 DEF GoOn
  <2>2. b' = b /\ split' = split
    BY <2>1 DEF b, Current, client, turn
  <2>3. o.file = obj.file /\ o.toSend = obj.toSend /\ o.wbuf = obj.wbuf /\ o.haveSend = obj.haveSend
    BY <1>3 DEF SameButLine
  <2>4. ASSUME fresh PROVE Parsed(b)'
    <3>1. ASSUME Len(b) >= BodyStart(b) + o.clen
          PROVE  o.checked # BodyStart(b) /\ split
      <4>1. o.checked # BodyStart(b)
        BY <1>5, <1>7, <2>4, <3>1 DEF Enough
      <4>2. CASE Calls
        <5>1. ls # "LINE_OK"
          BY <1>1, <4>2 DEF Calls
        <5>2. Len(b) >= BodyStart(b) + obj.clen /\ InBody(b)
          BY <1>5, <2>4, <3>1
        <5> QED
          BY <4>1, <5>1, <5>2 DEF InBody
      <4>3. CASE ~Calls
        <5>1. obj.checked # BodyStart(b)
          BY <1>3, <4>1, <4>3
        <5>2. Len(b) >= BodyStart(b) + obj.clen /\ InBody(b)
          BY <1>5, <2>4, <3>1
        <5> QED
          BY <4>1, <5>1, <5>2 DEF InBody
      <4> QED
        BY <4>2, <4>3
    <3>2. o.state = "CONTENT"
      BY <1>1, <1>3 DEF SameButLine
    <3>3. InBody(b)'
      BY <1>5, <2>1, <2>2, <2>4, <3>1 DEF InBody
    <3> QED
      BY <1>5, <2>1, <2>2, <2>4, <3>2, <3>3 DEF Parsed
  <2>5. ls' \in {"LINE_OK", "LINE_OPEN", "LINE_BAD"} /\ at' # "in"
    BY <2>1
  <2> QED
    BY <1>1, <1>3, <2>1, <2>3, <2>4, <2>5, ParseGoesOn DEF b
<1> QED
  BY <1>6, <1>7

-----------------------------------------------------------------------------
(* Opening, reading and closing.                                            *)

\* Initially the object is zeroed.
LEMMA InitCorrect == Init => ConnectionInvariant
<1> SUFFICES ASSUME Init PROVE ConnectionInvariant
  OBVIOUS
<1>1. Zero \in Object /\ InBuffers(Zero)
  <2>1. Zero.iv \in IoVec
    BY DEF Zero, IoVec
  <2>2. Zero \in Object
    BY <2>1 DEF Zero, Object
  <2>3. InBuffers(Zero)
    BY ConnectionAssumption DEF Zero, InBuffers
  <2> QED
    BY <2>2, <2>3
<1>2. TypeOK
  <2>1. NoAnswer \in [code : Codes, url : Int, linger : BOOLEAN]
    BY DEF NoAnswer, Codes
  <2>2. <<>> \in Seq(Byte) /\ <<>> \in Seq(Byte \ {NUL}) /\ Len(<<>>) = 0
    OBVIOUS
  <2>3. 0 \in 0 .. MaxConns /\ 0 \in Nat
    BY ConnectionAssumption
  <2>4. obj \in Object /\ InBuffers(obj)
    BY <1>1 DEF Init
  <2>5. /\ at \in {"closed", "in", "out", "parse", "write"}
        /\ ls \in {"LINE_OK", "LINE_OPEN", "LINE_BAD"}
        /\ split \in BOOLEAN /\ fresh \in BOOLEAN
    BY DEF Init
  <2>6. conn \in 0 .. MaxConns /\ base \in Nat /\ pos \in Nat /\ cut \in Nat /\ base <= pos
    BY <2>3 DEF Init
  <2>7. stream \in Seq(Byte \ {NUL}) /\ pos <= Len(stream) /\ out \in Seq(Byte)
    BY <2>2, <2>3 DEF Init
  <2>8. ans \in [code : Codes, url : Int, linger : BOOLEAN]
    BY <2>1 DEF Init
  <2> QED
    BY <2>4, <2>5, <2>6, <2>7, <2>8 DEF TypeOK
<1>3. ParseInvariant /\ SplitIndependent /\ SentInOrder /\ AnswerComplete
  BY DEF Init, ParseInvariant, SplitIndependent, SentInOrder, AnswerComplete
<1>4. WriteInvariant
  BY DEF Init, WriteInvariant, Zero
<1> QED
  BY <1>2, <1>3, <1>4 DEF ConnectionInvariant

\* A connection that is closed without a byte having been written.
LEMMA ClosedCorrect ==
  ASSUME ConnectionInvariant, TypeOK', at' = "closed",
         fresh' = fresh, ans' = ans, out' = out, cut' = cut,
         obj'.file # 0 => obj'.toSend # 0
  PROVE  ConnectionInvariant'
<1>1. ParseInvariant' /\ SplitIndependent' /\ AnswerComplete' /\ WriteInvariant'
  BY DEF ParseInvariant, SplitIndependent, AnswerComplete, WriteInvariant
<1>2. SentInOrder'
  BY DEF ConnectionInvariant, SentInOrder, Answer
<1> QED
  BY <1>1, <1>2 DEF ConnectionInvariant

\* A new connection finds the object as it was left.
LEMMA AcceptCorrect ==
  ASSUME ConnectionInvariant, NEW s \in Streams, Accept(s)
  PROVE  ConnectionInvariant'
<1>1. TypeOK /\ WriteInvariant
  BY DEF ConnectionInvariant
<1>2. /\ conn < MaxConns /\ at' = "in" /\ conn' = conn + 1 /\ stream' = s
      /\ pos' = 0 /\ base' = 0 /\ split' = FALSE /\ fresh' = (obj = init(obj))
      /\ ans' = NoAnswer /\ out' = <<>> /\ cut' = 0 /\ obj' = obj /\ ls' = ls
  BY DEF Accept
<1>3. TypeOK'
  <2>1. NoAnswer \in [code : Codes, url : Int, linger : BOOLEAN]
    BY DEF NoAnswer, Codes
  <2>2. conn' \in 0 .. MaxConns
    BY <1>1, <1>2, ConnectionAssumption DEF TypeOK
  <2>3. stream' \in Seq(Byte \ {NUL}) /\ Len(stream') \in Nat
    BY <1>2, StreamAssumption, LenProperties
  <2>4. fresh' \in BOOLEAN
    BY <1>2
  <2>5. obj' \in Object /\ (InBuffers(obj))'
    BY <1>1, <1>2 DEF TypeOK
  <2>6. ls' \in {"LINE_OK", "LINE_OPEN", "LINE_BAD"}
    BY <1>1, <1>2 DEF TypeOK
  <2>7. <<>> \in Seq(Byte) /\ 0 \in Nat
    OBVIOUS
  <2>8. /\ base' \in Nat /\ pos' \in Nat /\ base' <= pos' /\ pos' <= Len(stream')
        /\ split' \in BOOLEAN /\ out' \in Seq(Byte) /\ cut' \in Nat
    <3>1. base' = 0 /\ pos' = 0 /\ cut' = 0
      BY <1>2
    <3>2. base' \in Nat /\ pos' \in Nat /\ base' <= pos' /\ pos' <= Len(stream') /\ cut' \in Nat
      BY <2>3, <3>1
    <3>3. split' \in BOOLEAN
      BY <1>2
    <3>4. out' \in Seq(Byte)
      BY <1>2, <2>7
    <3> QED
      BY <3>2, <3>3, <3>4
  <2>9. ans' \in [code : Codes, url : Int, linger : BOOLEAN]
    BY <1>2, <2>1
  <2> QED
    BY <1>2, <2>2, <2>3, <2>4, <2>5, <2>6, <2>8, <2>9 DEF TypeOK
<1>4. ASSUME fresh'
      PROVE  /\ obj.read = <<>> /\ obj.checked = 0 /\ obj.start = 0 /\ obj.state = "REQUESTLITE"
             /\ obj.url = 0 /\ ~obj.linger /\ obj.clen = 0
             /\ obj.wbuf = <<>> /\ obj.toSend = 0 /\ obj.haveSend = 0
  <2>1. obj = init(obj)
    BY <1>2, <1>4
  <2>2. /\ init(obj).read = <<>> /\ init(obj).checked = 0 /\ init(obj).start = 0
        /\ init(obj).state = "REQUESTLITE"
        /\ init(obj).url = 0 /\ ~init(obj).linger /\ init(obj).clen = 0
        /\ init(obj).wbuf = <<>> /\ init(obj).toSend = 0 /\ init(obj).haveSend = 0
    BY DEF init, Zero
  <2> QED
    BY <2>1, <2>2
<1>5. WriteInvariant'
  BY <1>1, <1>2, <1>4 DEF WriteInvariant
<1>6. ParseInvariant'
  <2> SUFFICES ASSUME fresh'
               PROVE  Parsed(Current)' /\ \A i \in Eols(Current)' : i < obj'.start
    BY <1>2 DEF ParseInvariant
  <2>1. Current' = <<>>
    BY <1>2, SubSeqEmpty DEF Current
  <2>2. <<>> \in Seq(Byte) /\ Len(<<>>) = 0
    OBVIOUS
  <2>3. Eols(<<>>) = {}
    <3>1. ASSUME NEW b \in Seq(Byte), Len(b) = 0 PROVE Eols(b) = {}
      <4>1. \A i \in Eols(b) : i \in Nat /\ 1 <= i /\ i < Len(b)
        BY EolsRange
      <4> QED
        BY <3>1, <4>1
    <3> QED
      BY <2>2, <3>1
  <2>4. ReadingLines(obj, <<>>)
    BY <1>4, <2>2 DEF ReadingLines, AtLine
  <2>5. Parsed(Current)'
    BY <1>2, <1>4, <2>1, <2>2, <2>4 DEF Parsed
  <2> QED
    BY <2>1, <2>3, <2>5
<1>7. SplitIndependent' /\ SentInOrder' /\ AnswerComplete'
  BY <1>2 DEF SplitIndependent, SentInOrder, AnswerComplete, NoAnswer
<1> QED
  BY <1>3, <1>5, <1>6, <1>7 DEF ConnectionInvariant

\* close_conn().
LEMMA CloseCorrect ==
  ASSUME ConnectionInvariant, Close
  PROVE  ConnectionInvariant'
<1>1. TypeOK /\ WriteInvariant
  BY DEF ConnectionInvariant
<1>2. /\ at' = "closed" /\ obj' = obj /\ ls' = ls /\ conn' = conn /\ stream' = stream
      /\ fresh' = fresh /\ pos' = pos /\ base' = base /\ split' = split
      /\ ans' = ans /\ out' = out /\ cut' = cut
  BY DEF Close, client, turn
<1>3. TypeOK'
  BY <1>1, <1>2 DEF TypeOK, InBuffers
<1> QED
  BY <1>1, <1>2, <1>3, ClosedCorrect DEF WriteInvariant

\* What read() adds to the buffer is what comes next in the stream.
LEMMA ReceiveFacts ==
  ASSUME ConnectionInvariant, NEW n \in 0 .. Left, Receive(n),
         Len(obj.read) + n <= READ_BUFFER_SIZE
  PROVE  /\ n \in Nat /\ pos' = pos + n /\ pos' \in Nat /\ pos' <= Len(stream)
         /\ obj' \in Object /\ InBuffers(obj')
         /\ SameButLine(obj, obj') /\ obj'.checked = obj.checked /\ obj'.start = obj.start
         /\ Len(obj'.read) = Len(obj.read) + n
         /\ \A j \in 1 .. Len(obj.read) : obj'.read[j] = obj.read[j]
         /\ \A j \in 1 .. n : obj'.read[Len(obj.read) + j] = stream[pos + j]
<1>1. TypeOK
  BY DEF ConnectionInvariant
<1>2. /\ obj \in Object /\ InBuffers(obj) /\ stream \in Seq(Byte) /\ Len(stream) \in Nat
      /\ pos \in Nat /\ pos <= Len(stream) /\ obj.read \in Seq(Byte) /\ Len(obj.read) \in Nat
  BY <1>1, CurrentIs, LenProperties DEF TypeOK, Object
<1>3. n \in Nat /\ pos + n <= Len(stream) /\ pos' = pos + n
  BY <1>2 DEF Left, Receive
<1> DEFINE more == SubSeq(stream, pos + 1, pos + n)
           old == obj.read
           r == old \o more
<1>4. obj' = [obj EXCEPT !.read = r]
  BY DEF Receive
<1>5. \A i \in pos + 1 .. pos + n : stream[i] \in Byte
  BY <1>2, <1>3, ElementOfSeq
<1>6. /\ more \in Seq(Byte)
      /\ Len(more) = IF pos + 1 <= pos + n THEN (pos + n) - (pos + 1) + 1 ELSE 0
      /\ \A i \in 1 .. (pos + n) - (pos + 1) + 1 : more[i] = stream[(pos + 1) + i - 1]
  BY <1>2, <1>3, <1>5, SubSeqProperties
<1> HIDE DEF more
<1>7. Len(more) = n /\ \A i \in 1 .. n : more[i] = stream[pos + i]
  <2>1. Len(more) = n
    BY <1>2, <1>3, <1>6
  <2>2. \A i \in 1 .. n : i \in 1 .. (pos + n) - (pos + 1) + 1 /\ (pos + 1) + i - 1 = pos + i
    BY <1>2, <1>3
  <2> QED
    BY <1>6, <2>1, <2>2
<1>8. /\ r \in Seq(Byte) /\ Len(r) = Len(old) + n
      /\ \A i \in 1 .. Len(old) + n :
           r[i] = IF i <= Len(old) THEN old[i] ELSE more[i - Len(old)]
  <2>1. old \in Seq(Byte) /\ more \in Seq(Byte)
    BY <1>2, <1>6
  <2> HIDE DEF old
  <2>2. /\ r \in Seq(Byte) /\ Len(r) = Len(old) + Len(more)
        /\ \A i \in 1 .. Len(old) + Len(more) :
             r[i] = IF i <= Len(old) THEN old[i] ELSE more[i - Len(old)]
    BY <2>1, ConcatProperties
  <2> HIDE DEF r
  <2> QED
    BY <1>7, <2>2
<1> HIDE DEF r
<1>9. ASSUME NEW j \in 1 .. Len(obj.read) PROVE r[j] = obj.read[j]
  <2>1. j \in 1 .. Len(old) + n /\ j <= Len(old)
    BY <1>2, <1>3
  <2> QED
    BY <1>8, <2>1
<1>10. ASSUME NEW j \in 1 .. n PROVE r[Len(obj.read) + j] = stream[pos + j]
  <2>1. /\ Len(obj.read) + j \in 1 .. Len(obj.read) + n /\ ~(Len(obj.read) + j <= Len(obj.read))
        /\ (Len(obj.read) + j) - Len(obj.read) = j
    BY <1>2, <1>3
  <2> QED
    BY <1>7, <1>8, <2>1
<1>11. obj' \in Object
  BY <1>2, <1>4, <1>8 DEF Object
<1>12. obj'.read = r /\ obj'.checked = obj.checked /\ obj'.start = obj.start /\ SameButLine(obj, obj')
  BY <1>2, <1>4 DEF Object, SameButLine
<1>13. InBuffers(obj')
  <2>1. obj.checked \in Nat /\ obj.checked <= Len(obj.read) /\ Len(obj.wbuf) <= WRITE_BUFFER_SIZE
    BY <1>2 DEF Object, InBuffers
  <2>2. obj.checked <= Len(obj.read) + n
    BY <1>2, <1>3, <2>1
  <2>3. obj'.wbuf = obj.wbuf
    BY <1>12 DEF SameButLine
  <2> QED
    BY <1>2, <1>8, <1>12, <2>1, <2>2, <2>3 DEF InBuffers
<1>14. pos' \in Nat
  BY <1>2, <1>3
<1> QED
  BY <1>3, <1>8, <1>9, <1>10, <1>11, <1>12, <1>13, <1>14

\* The types after read(), whatever comes next.
LEMMA ReceiveTyped ==
  ASSUME ConnectionInvariant, NEW n \in 0 .. Left, Receive(n),
         Len(obj.read) + n <= READ_BUFFER_SIZE,
         at' \in {"closed", "in", "out", "parse", "write"},
         ls' \in {"LINE_OK", "LINE_OPEN", "LINE_BAD"}
  PROVE  TypeOK'
<1>1. TypeOK
  BY DEF ConnectionInvariant
<1>2. /\ conn' = conn /\ stream' = stream /\ fresh' = fresh /\ base' = base
      /\ ans' = ans /\ out' = out /\ cut' = cut
      /\ split' = (split \/ Blanks(Current) # {})
  BY DEF Receive, client
<1>3. /\ n \in Nat /\ pos' = pos + n /\ pos' \in Nat /\ pos' <= Len(stream)
      /\ obj' \in Object /\ InBuffers(obj')
  BY ReceiveFacts
<1>4. base' \in Nat /\ base' <= pos' /\ pos' <= Len(stream')
  <2>1. base \in Nat /\ pos \in Nat /\ base <= pos
    BY <1>1 DEF TypeOK
  <2> QED
    BY <1>2, <1>3, <2>1
<1>5. split' \in BOOLEAN
  BY <1>2
<1>6. (InBuffers(obj))'
  BY <1>3
<1>7. /\ conn' \in 0 .. MaxConns /\ stream' \in Seq(Byte \ {NUL}) /\ fresh' \in BOOLEAN
      /\ ans' \in [code : Codes, url : Int, linger : BOOLEAN] /\ out' \in Seq(Byte) /\ cut' \in Nat
  BY <1>1, <1>2 DEF TypeOK
<1> QED
  BY <1>3, <1>4, <1>5, <1>6, <1>7 DEF TypeOK

\* read() fails, and the connection is closed.
LEMMA ReadFailsCorrect ==
  ASSUME ConnectionInvariant, NEW n \in 0 .. Left, ReadFails(n)
  PROVE  ConnectionInvariant'
<1>1. /\ Receive(n) /\ Len(obj.read) + n <= READ_BUFFER_SIZE /\ at' = "closed" /\ ls' = ls
  BY DEF ReadFails
<1>2. TypeOK /\ WriteInvariant
  BY DEF ConnectionInvariant
<1>3. ls' \in {"LINE_OK", "LINE_OPEN", "LINE_BAD"} /\ at' \in {"closed", "in", "out", "parse", "write"}
  BY <1>1, <1>2 DEF TypeOK
<1>4. TypeOK'
  BY <1>1, <1>3, ReceiveTyped
<1>5. obj'.file = obj.file /\ obj'.toSend = obj.toSend
  BY <1>1, ReceiveFacts DEF SameButLine
<1>6. fresh' = fresh /\ ans' = ans /\ out' = out /\ cut' = cut
  BY <1>1 DEF Receive, client
<1> QED
  BY <1>1, <1>2, <1>4, <1>5, <1>6, ClosedCorrect DEF WriteInvariant

\* read() brings more, and what has been parsed so far is still what the bytes
\* say: this is where a request is split.
LEMMA ReadCorrect ==
  ASSUME ConnectionInvariant, NEW n \in 1 .. Left, Read(n)
  PROVE  ConnectionInvariant'
<1> DEFINE b == Current
           c == Current'
           m == Len(b)
<1>1. /\ Receive(n) /\ Len(obj.read) + n <= READ_BUFFER_SIZE /\ at' = "parse" /\ ls' = "LINE_OK"
      /\ at = "in"
  BY DEF Read, Receive
<1>2. TypeOK /\ WriteInvariant
  BY DEF ConnectionInvariant
<1>3. ls' \in {"LINE_OK", "LINE_OPEN", "LINE_BAD"} /\ at' \in {"closed", "in", "out", "parse", "write"}
  BY <1>1
<1>4. n \in 0 .. Left
  BY <1>2, CurrentIs, LenProperties DEF TypeOK, Left
<1>5. TypeOK'
  BY <1>1, <1>3, <1>4, ReceiveTyped
<1>6. /\ n \in Nat /\ pos' = pos + n
      /\ obj' \in Object /\ InBuffers(obj')
      /\ SameButLine(obj, obj') /\ obj'.checked = obj.checked /\ obj'.start = obj.start
      /\ Len(obj'.read) = Len(obj.read) + n
      /\ \A j \in 1 .. Len(obj.read) : obj'.read[j] = obj.read[j]
      /\ \A j \in 1 .. n : obj'.read[Len(obj.read) + j] = stream[pos + j]
  BY <1>1, <1>4, ReceiveFacts
<1>7. /\ stream' = stream /\ fresh' = fresh /\ base' = base /\ ans' = ans /\ out' = out /\ cut' = cut
      /\ (Blanks(b) # {} => split')
  BY <1>1 DEF Receive, client
<1>8. base \in Nat /\ pos \in Nat /\ base <= pos
  BY <1>2 DEF TypeOK
<1>9. b \in Seq(Byte) /\ m = pos - base /\ \A j \in 1 .. pos - base : b[j] = stream[base + j]
  BY <1>2, CurrentIs
<1>10. c \in Seq(Byte) /\ Len(c) = m + n /\ \A j \in 1 .. m + n : c[j] = stream[base + j]
  <2>1. /\ c \in Seq(Byte) /\ Len(c) = pos' - base'
        /\ \A j \in 1 .. pos' - base' : c[j] = stream'[base' + j]
    BY <1>5, CurrentNext
  <2>2. pos' - base' = m + n
    BY <1>6, <1>7, <1>8, <1>9
  <2> QED
    BY <1>7, <2>1, <2>2
<1>11. m \in Nat
  BY <1>8, <1>9
<1> HIDE DEF b, c, m
<1>12. Extends(b, c)
  <2>1. Len(b) = m /\ Len(b) <= Len(c)
    BY <1>6, <1>10, <1>11 DEF m
  <2>2. ASSUME NEW j \in 1 .. Len(b) PROVE c[j] = b[j]
    <3>1. j \in 1 .. pos - base /\ j \in 1 .. m + n
      BY <1>6, <1>9, <1>11, <2>1
    <3> QED
      BY <1>9, <1>10, <3>1
  <2> QED
    BY <2>1, <2>2 DEF Extends
<1>13. ASSUME fresh PROVE Parsed(b) /\ Len(obj.read) = m /\ obj \in Object /\ InBuffers(obj)
  BY <1>1, <1>13, FreshParse DEF Parsed, b, m
<1>14. ASSUME fresh, ReadingLines(obj, b) PROVE ReadingLines(obj', c)
  <2> DEFINE k == obj.start
  <2>1. /\ k \in Nat /\ obj.checked \in Nat /\ k <= obj.checked /\ obj.checked <= m
        /\ Len(obj.read) = m /\ Len(b) = m
    BY <1>13, <1>14 DEF Object, InBuffers, m
  <2>2. /\ AtLine(b, k) /\ (k > 0 => obj.read[k] = NUL)
        /\ \A j \in k + 1 .. m : obj.read[j] = b[j]
        /\ \A j \in k + 1 .. obj.checked : b[j] # CR /\ b[j] # LF
    BY <1>14, <2>1 DEF ReadingLines
  <2> HIDE DEF k
  <2>3. \A j \in 1 .. m : c[j] = b[j] /\ obj'.read[j] = obj.read[j]
    BY <1>6, <1>12, <2>1 DEF Extends
  <2>4. AtLine(c, k)
    BY <1>9, <1>10, <1>12, <2>2, EolsExtended DEF AtLine
  <2>5. ASSUME k > 0 PROVE obj'.read[k] = NUL
    <3>1. k \in 1 .. m
      BY <2>1, <2>5, <1>11
    <3> QED
      BY <2>2, <2>3, <2>5, <3>1
  <2>6. ASSUME NEW j \in k + 1 .. Len(c) PROVE obj'.read[j] = c[j]
    <3>1. CASE j <= m
      <4>1. j \in 1 .. m /\ j \in k + 1 .. m
        BY <1>11, <2>1, <3>1
      <4> QED
        BY <2>2, <2>3, <4>1
    <3>2. CASE j > m
      <4> DEFINE i == j - m
      <4>1. i \in 1 .. n /\ j = m + i /\ j \in 1 .. m + n /\ pos + i = base + j
        BY <1>6, <1>8, <1>9, <1>10, <1>11, <2>1, <3>2
      <4>2. obj'.read[m + i] = stream[pos + i]
        BY <1>6, <2>1, <4>1
      <4>3. c[j] = stream[base + j]
        BY <1>10, <4>1
      <4> QED
        BY <4>1, <4>2, <4>3
    <3> QED
      BY <1>11, <2>1, <3>1, <3>2
  <2>7. ASSUME NEW j \in k + 1 .. obj.checked PROVE c[j] # CR /\ c[j] # LF
    <3>1. j \in 1 .. m
      BY <1>11, <2>1
    <3> QED
      BY <2>2, <2>3, <3>1
  <2>8. Len(obj'.read) = Len(c)
    BY <1>6, <1>10, <2>1
  <2> QED
    BY <1>6, <2>4, <2>5, <2>6, <2>7, <2>8 DEF ReadingLines, k
<1>15. ASSUME fresh PROVE Parsed(Current)'
  <2>1. Len(obj'.read) = Len(c)
    BY <1>6, <1>10, <1>13, <1>15
  <2>2. ASSUME GotRequestLine(obj, b) PROVE GotRequestLine(obj', c)
    BY <1>6, <1>9, <1>10, <1>12, <2>2, FirstExtended DEF GotRequestLine, SameButLine
  <2>3. /\ obj'.state = obj.state /\ obj'.url = obj.url /\ obj'.clen = obj.clen
        /\ obj'.linger = obj.linger
    BY <1>6 DEF SameButLine
  <2>4. ASSUME obj.state = "REQUESTLITE"
        PROVE  /\ ReadingLines(obj', c) /\ obj'.start = 0
               /\ obj'.url = 0 /\ ~obj'.linger /\ obj'.clen = 0
    BY <1>6, <1>13, <1>14, <1>15, <2>3, <2>4 DEF Parsed
  <2>5. ASSUME obj.state = "HEADER"
        PROVE  /\ ReadingLines(obj', c) /\ obj'.start > 0 /\ GotRequestLine(obj', c)
               /\ \A i \in Blanks(c) : i >= obj'.start
               /\ obj'.clen = LengthTo(c, obj'.start) /\ (obj'.linger <=> LingerTo(c, obj'.start))
    <3> DEFINE k == obj.start
    <3>1. /\ ReadingLines(obj, b) /\ k > 0 /\ GotRequestLine(obj, b) /\ Eols(b) # {}
          /\ \A i \in Blanks(b) : i >= k
          /\ obj.clen = LengthTo(b, k) /\ (obj.linger <=> LingerTo(b, k))
      BY <1>13, <1>15, <2>5 DEF Parsed, GotRequestLine
    <3>2. k \in Nat /\ k <= Len(b) /\ Len(b) = m
      BY <1>11, <1>13, <1>15 DEF Object, InBuffers, m
    <3> HIDE DEF k
    <3>3. LengthTo(c, k) = LengthTo(b, k) /\ (LingerTo(c, k) <=> LingerTo(b, k))
      BY <1>9, <1>10, <1>12, <3>1, <3>2, HeadersExtended
    <3>4. ASSUME NEW i \in Blanks(c) PROVE i >= k
      <4>1. i \in Nat
        BY <1>10, EolsRange
      <4>2. CASE i < Len(b)
        BY <1>9, <1>10, <1>12, <3>1, <4>2, FirstExtended
      <4>3. CASE ~(i < Len(b))
        BY <1>11, <3>2, <4>1, <4>3
      <4> QED
        BY <4>2, <4>3
    <3> QED
      BY <1>6, <1>14, <1>15, <2>2, <2>3, <3>1, <3>3, <3>4 DEF k
  <2>6. ASSUME obj.state = "CONTENT" PROVE InBody(Current)'
    <3>1. InBody(b)
      BY <1>13, <1>15, <2>6 DEF Parsed
    <3> DEFINE k == Min(Blanks(b))
    <3>2. Blanks(b) # {}
      BY <3>1 DEF InBody
    <3>3. /\ Eols(b) # {} /\ Blanks(c) # {} /\ Min(Blanks(c)) = k /\ BodyStart(c) = BodyStart(b)
          /\ k \in Nat /\ k < Len(b)
      BY <1>9, <1>10, <1>12, <3>2, BlankExtended
    <3>4. k <= Len(b)
      BY <1>11, <3>3 DEF m
    <3> HIDE DEF k
    <3>5. LengthTo(c, k) = LengthTo(b, k) /\ (LingerTo(c, k) <=> LingerTo(b, k))
      BY <1>9, <1>10, <1>12, <3>3, <3>4, HeadersExtended
    <3>6. /\ GotRequestLine(obj, b) /\ obj.clen = LengthTo(b, k) /\ (obj.linger <=> LingerTo(b, k))
          /\ BodyStart(b) <= obj.checked
      BY <3>1 DEF InBody, k
    <3>7. GotRequestLine(obj', c)
      BY <2>2, <3>6
    <3>8. split'
      BY <1>7, <3>2
    <3>9. /\ obj'.clen = LengthTo(c, Min(Blanks(c))) /\ (obj'.linger <=> LingerTo(c, Min(Blanks(c))))
          /\ BodyStart(c) <= obj'.checked
      BY <1>6, <2>3, <3>3, <3>5, <3>6
    <3> QED
      BY <1>1, <3>3, <3>7, <3>8, <3>9 DEF InBody, c
  <2> QED
    BY <2>1, <2>3, <2>4, <2>5, <2>6 DEF Parsed, c
<1>16. base' < pos'
  BY <1>6, <1>7, <1>8
<1>17. ParseInvariant'
  BY <1>1, <1>7, <1>15, <1>16 DEF ParseInvariant
<1>18. WriteInvariant'
  BY <1>1, <1>2, <1>6, <1>7 DEF WriteInvariant, SameButLine
<1>19. SplitIndependent' /\ AnswerComplete'
  BY <1>1 DEF SplitIndependent, AnswerComplete
<1>20. SentInOrder'
  BY <1>7 DEF ConnectionInvariant, SentInOrder, Answer
<1> QED
  BY <1>5, <1>17, <1>18, <1>19, <1>20 DEF ConnectionInvariant

-----------------------------------------------------------------------------
(* write().                                                                 *)

\* The object after init().
LEMMA InitObject ==
  ASSUME NEW o, o.iv \in IoVec, o.file = 0
  PROVE  LET q == init(o)
         IN /\ q \in Object /\ InBuffers(q)
            /\ q.read = <<>> /\ q.checked = 0 /\ q.start = 0 /\ q.state = "REQUESTLITE"
            /\ q.url = 0 /\ ~q.linger /\ q.clen = 0
            /\ q.wbuf = <<>> /\ q.toSend = 0 /\ q.haveSend = 0 /\ q.file = 0
<1> DEFINE q == init(o)
<1>1. /\ q.read = <<>> /\ q.checked = 0 /\ q.start = 0 /\ q.state = "REQUESTLITE"
      /\ q.url = 0 /\ ~q.linger /\ q.clen = 0
      /\ q.wbuf = <<>> /\ q.toSend = 0 /\ q.haveSend = 0 /\ q.file = 0
  BY DEF init, Zero
<1>2. q \in Object
  <2> DEFINE z == Zero
  <2>1. z \in Object
    <3>1. Zero.iv \in IoVec
      BY DEF Zero, IoVec
    <3> QED
      BY <3>1 DEF Zero, Object
  <2>2. q = [z EXCEPT !.iv = o.iv, !.file = o.file]
    BY DEF init
  <2> HIDE DEF z, q
  <2> QED
    BY <2>1, <2>2 DEF Object
<1> HIDE DEF q
<1>3. InBuffers(q)
  BY <1>1, ConnectionAssumption DEF InBuffers
<1> QED
  BY <1>1, <1>2, <1>3 DEF q

\* The object is initialised for the next request: nothing of it has been read.
LEMMA NextRequest ==
  ASSUME ConnectionInvariant, NEW o, o.iv \in IoVec, o.file = 0, obj' = init(o),
         at' = "in", base' = pos, pos' = pos, split' = FALSE,
         ls' = ls, conn' = conn, stream' = stream, fresh' = fresh, ans' = ans,
         out' \in Seq(Byte), cut' \in Nat, SentInOrder',
         fresh /\ cut' <= 1 /\ ans.code = "FILE_REQUEST" => out' = Answer
  PROVE  ConnectionInvariant'
<1>1. TypeOK
  BY DEF ConnectionInvariant
<1>2. /\ obj' \in Object /\ InBuffers(obj')
      /\ obj'.read = <<>> /\ obj'.checked = 0 /\ obj'.start = 0 /\ obj'.state = "REQUESTLITE"
      /\ obj'.url = 0 /\ ~obj'.linger /\ obj'.clen = 0
      /\ obj'.wbuf = <<>> /\ obj'.toSend = 0 /\ obj'.haveSend = 0 /\ obj'.file = 0
  BY InitObject
<1>3. TypeOK'
  <2>1. (InBuffers(obj))'
    BY <1>2 DEF InBuffers
  <2>2. base' \in Nat /\ pos' \in Nat /\ base' <= pos' /\ pos' <= Len(stream')
    BY <1>1 DEF TypeOK
  <2>3. split' \in BOOLEAN /\ at' \in {"closed", "in", "out", "parse", "write"}
    OBVIOUS
  <2>4. /\ ls' \in {"LINE_OK", "LINE_OPEN", "LINE_BAD"}
        /\ conn' \in 0 .. MaxConns /\ stream' \in Seq(Byte \ {NUL}) /\ fresh' \in BOOLEAN
        /\ ans' \in [code : Codes, url : Int, linger : BOOLEAN]
    BY <1>1 DEF TypeOK
  <2> QED
    BY <1>2, <2>1, <2>2, <2>3, <2>4 DEF TypeOK
<1>4. Parsed(Current)' /\ \A i \in Eols(Current)' : i < obj'.start
  <2>1. Current' = <<>>
    <3>1. base' \in Nat /\ pos' = base'
      BY <1>1 DEF TypeOK
    <3>2. SubSeq(stream', base' + 1, pos') = <<>>
      BY <3>1, SubSeqEmpty
    <3> QED
      BY <3>2 DEF Current
  <2>2. <<>> \in Seq(Byte) /\ Len(<<>>) = 0
    OBVIOUS
  <2>3. Eols(<<>>) = {}
    <3>1. ASSUME NEW b \in Seq(Byte), Len(b) = 0 PROVE Eols(b) = {}
      <4>1. \A i \in Eols(b) : i \in Nat /\ 1 <= i /\ i < Len(b)
        BY EolsRange
      <4> QED
        BY <3>1, <4>1
    <3> QED
      BY <2>2, <3>1
  <2>4. ReadingLines(obj', <<>>)
    BY <1>2, <2>2 DEF ReadingLines, AtLine
  <2>5. Parsed(Current)'
    BY <1>2, <2>1, <2>2, <2>4 DEF Parsed
  <2> QED
    BY <2>1, <2>3, <2>5
<1>5. ParseInvariant'
  BY <1>4 DEF ParseInvariant
<1>6. WriteInvariant'
  BY <1>2 DEF WriteInvariant
<1>7. SplitIndependent'
  BY DEF SplitIndependent
<1>8. AnswerComplete'
  BY <1>2 DEF AnswerComplete, Answer
<1> QED
  BY <1>3, <1>5, <1>6, <1>7, <1>8 DEF ConnectionInvariant

\* An error page is never sent; its connection goes on with the next request.
LEMMA WriteNothingCorrect ==
  ASSUME ConnectionInvariant, WriteNothing
  PROVE  ConnectionInvariant'
<1>1. TypeOK /\ WriteInvariant /\ SentInOrder
  BY DEF ConnectionInvariant
<1>2. /\ at = "out" /\ obj.toSend = 0 /\ obj' = init(obj)
      /\ at' = "in" /\ base' = pos /\ split' = FALSE /\ pos' = pos
      /\ ls' = ls /\ conn' = conn /\ stream' = stream /\ fresh' = fresh
      /\ ans' = ans /\ out' = out /\ cut' = cut
  BY DEF WriteNothing, client
<1>3. obj.iv \in IoVec /\ obj.file = 0
  BY <1>1, <1>2 DEF TypeOK, Object, WriteInvariant
<1>4. SentInOrder'
  BY <1>1, <1>2 DEF SentInOrder, Answer
<1>5. ASSUME fresh PROVE ans.code # "FILE_REQUEST"
  <2>1. Writing
    BY <1>1, <1>2, <1>5 DEF WriteInvariant
  <2> SUFFICES ASSUME ans.code = "FILE_REQUEST" PROVE FALSE
    OBVIOUS
  <2>2. obj.haveSend < HEADER_LEN + FILE_LEN /\ obj.toSend = HEADER_LEN + FILE_LEN - obj.haveSend
    BY <2>1 DEF Writing
  <2>3. obj.haveSend \in Nat /\ HEADER_LEN \in Nat /\ FILE_LEN \in Nat
    BY <1>1, ConnectionAssumption DEF TypeOK, Object, HEADER_LEN
  <2> QED
    BY <1>2, <2>2, <2>3
<1>6. out' \in Seq(Byte) /\ cut' \in Nat
  BY <1>1, <1>2 DEF TypeOK
<1> QED
  BY <1>2, <1>3, <1>4, <1>5, <1>6, NextRequest

\* What m_iv describes is a sequence of bytes, the header's first.
LEMMA IovTyped ==
  ASSUME NEW o \in Object
  PROVE  /\ Iov(o) \in Seq(Byte) /\ Len(Iov(o)) = o.iv.len0 + o.iv.len1
         /\ \A i \in 1 .. o.iv.len0 : Iov(o)[i] = HeaderByte(o.wbuf, o.iv.base0 + i)
         /\ \A i \in 1 .. o.iv.len1 : Iov(o)[o.iv.len0 + i] = FileByte(o.file, o.iv.base1 + i)
<1> DEFINE k == o.iv.len0
           m == o.iv.len1
           h == [i \in 1 .. k |-> HeaderByte(o.wbuf, o.iv.base0 + i)]
           f == [i \in 1 .. m |-> FileByte(o.file, o.iv.base1 + i)]
<1>1. /\ k \in Nat /\ m \in Nat /\ o.iv.base0 \in Nat /\ o.iv.base1 \in Int
      /\ o.wbuf \in Seq(Byte) /\ o.file \in Nat
  <2>1. o.iv \in IoVec /\ o.wbuf \in Seq(Byte) /\ o.file \in {0} \cup Files
    BY DEF Object
  <2>2. o.file \in Nat
    <3>1. Files \subseteq Nat /\ 0 \in Nat
      BY ConnectionAssumption
    <3>2. CASE o.file = 0
      BY <3>2
    <3>3. CASE o.file \in Files
      BY <3>1, <3>3
    <3> QED
      BY <2>1, <3>2, <3>3
  <2>3. k \in Nat /\ m \in Nat /\ o.iv.base0 \in Nat /\ o.iv.base1 \in Int
    BY <2>1 DEF IoVec
  <2> QED
    BY <2>1, <2>2, <2>3
<1>2. Garbage \in Byte
  BY DEF Garbage, B, Byte, Kind
<1>3. \A i \in 1 .. k : HeaderByte(o.wbuf, o.iv.base0 + i) \in Byte
  BY <1>1, <1>2, ElementOfSeq, LenProperties DEF HeaderByte
<1>4. ASSUME NEW i \in 1 .. m PROVE FileByte(o.file, o.iv.base1 + i) \in Byte
  <2> DEFINE j == o.iv.base1 + i
  <2>1. 10 * o.file + j \in Int /\ "file" \in Kind
    BY <1>1 DEF Kind
  <2> HIDE DEF j
  <2>2. B("file", 10 * o.file + j) \in Byte
    BY <2>1 DEF B, Byte
  <2> QED
    BY <1>2, <2>2 DEF FileByte, j
<1>5. h \in [1 .. k -> Byte] /\ \A i \in 1 .. k : h[i] = HeaderByte(o.wbuf, o.iv.base0 + i)
  BY <1>3
<1>6. f \in [1 .. m -> Byte] /\ \A i \in 1 .. m : f[i] = FileByte(o.file, o.iv.base1 + i)
  BY <1>4
<1>7. Iov(o) = h \o f
  BY DEF Iov
<1> HIDE DEF h, f, k, m
<1>8. h \in Seq(Byte) /\ Len(h) = k
  <2>1. h \in Seq(Byte)
    BY <1>1, <1>5, SeqDef
  <2> QED
    BY <1>1, <1>5, <2>1
<1>9. f \in Seq(Byte) /\ Len(f) = m
  <2>1. f \in Seq(Byte)
    BY <1>1, <1>6, SeqDef
  <2> QED
    BY <1>1, <1>6, <2>1
<1>10. /\ h \o f \in Seq(Byte) /\ Len(h \o f) = k + m
       /\ \A i \in 1 .. k + m : (h \o f)[i] = IF i <= k THEN h[i] ELSE f[i - k]
  BY <1>8, <1>9, ConcatProperties
<1>11. ASSUME NEW i \in 1 .. k PROVE (h \o f)[i] = HeaderByte(o.wbuf, o.iv.base0 + i)
  <2>1. i \in 1 .. k + m /\ i <= k
    BY <1>1
  <2> QED
    BY <1>5, <1>10, <2>1
<1>12. ASSUME NEW i \in 1 .. m PROVE (h \o f)[k + i] = FileByte(o.file, o.iv.base1 + i)
  <2>1. k + i \in 1 .. k + m /\ ~(k + i <= k) /\ (k + i) - k = i
    BY <1>1
  <2> QED
    BY <1>6, <1>10, <2>1
<1> QED
  BY <1>7, <1>10, <1>11, <1>12 DEF k, m

\* An object with part of its answer sent.
WithSent(o, have, toSend, iv) ==
  [o EXCEPT !.haveSend = have, !.toSend = toSend, !.iv = iv]

\* Its type.
LEMMA SentObject ==
  ASSUME NEW o \in Object, InBuffers(o), NEW have, have \in Nat, NEW toSend, toSend \in Nat,
         NEW iv \in IoVec
  PROVE  LET q == WithSent(o, have, toSend, iv)
         IN /\ q \in Object /\ InBuffers(q)
            /\ q.haveSend = have /\ q.toSend = toSend /\ q.iv = iv
            /\ q.wbuf = o.wbuf /\ q.file = o.file /\ q.linger = o.linger
<1> DEFINE q == [o EXCEPT !.haveSend = have, !.toSend = toSend, !.iv = iv]
<1>1. q \in Object
  BY DEF Object
<1>2. /\ q.wbuf = o.wbuf /\ q.file = o.file /\ q.toSend = toSend /\ q.iv = iv
      /\ q.haveSend = have /\ q.linger = o.linger
      /\ q.read = o.read /\ q.start = o.start /\ q.checked = o.checked
  BY DEF Object
<1> HIDE DEF q
<1>3. InBuffers(q)
  BY <1>2 DEF InBuffers
<1> QED
  BY <1>1, <1>2, <1>3 DEF q, WithSent

\* m_iv after the header has been sent, or part of it.
HeaderSent(v, x, y) == [v EXCEPT !.len0 = 0, !.base1 = x, !.len1 = y]
HeaderPart(v, x, y) == [v EXCEPT !.base0 = x, !.len0 = y]

\* The object after writev has taken n bytes.
LEMMA AdvanceIs ==
  ASSUME NEW o \in Object, InBuffers(o), NEW n \in 1 .. o.toSend
  PROVE  LET q == Advance(o, n)
             have == o.haveSend + n
         IN /\ q \in Object /\ InBuffers(q)
            /\ q.haveSend = have /\ q.toSend = o.toSend - n
            /\ q.wbuf = o.wbuf /\ q.file = o.file /\ q.linger = o.linger
            /\ have >= o.iv.len0 =>
                 q.iv.len0 = 0 /\ q.iv.base1 = have - Len(o.wbuf) /\ q.iv.len1 = o.toSend - n
            /\ ~(have >= o.iv.len0) =>
                 /\ q.iv.base0 = have /\ q.iv.len0 = o.iv.len0 - n
                 /\ q.iv.base1 = o.iv.base1 /\ q.iv.len1 = o.iv.len1
<1> DEFINE q == Advance(o, n)
           have == o.haveSend + n
           left == o.toSend - n
           x == have - Len(o.wbuf)
           y == o.iv.len0 - n
           v1 == HeaderSent(o.iv, x, left)
           v2 == HeaderPart(o.iv, have, y)
<1>1. /\ o.iv \in IoVec /\ o.iv.len0 \in Nat /\ o.haveSend \in Nat /\ o.toSend \in Nat
      /\ o.wbuf \in Seq(Byte) /\ Len(o.wbuf) \in Nat
  BY LenProperties DEF Object, IoVec
<1>2. have \in Nat /\ left \in Nat /\ x \in Int
  BY <1>1
<1>3. have >= o.iv.len0 => q = WithSent(o, have, left, v1)
  BY DEF Advance, WithSent, Object, HeaderSent
<1>4. ~(have >= o.iv.len0) => q = WithSent(o, have, left, v2)
  BY DEF Advance, WithSent, Object, HeaderPart
<1> HIDE DEF have, left, x, y, q
<1>5. v1 \in IoVec /\ v1.len0 = 0 /\ v1.base1 = x /\ v1.len1 = left
  BY <1>1, <1>2 DEF IoVec, HeaderSent
<1>6. ASSUME ~(have >= o.iv.len0)
      PROVE  /\ v2 \in IoVec /\ v2.base0 = have /\ v2.len0 = y
             /\ v2.base1 = o.iv.base1 /\ v2.len1 = o.iv.len1
  <2>1. y \in Nat
    BY <1>1, <1>6 DEF have, y
  <2> QED
    BY <1>1, <1>2, <2>1 DEF IoVec, HeaderPart
<1> HIDE DEF v1, v2
<1>7. CASE have >= o.iv.len0
  <2> DEFINE e == WithSent(o, have, left, v1)
  <2>1. /\ e \in Object /\ InBuffers(e) /\ e.haveSend = have /\ e.toSend = left /\ e.iv = v1
        /\ e.wbuf = o.wbuf /\ e.file = o.file /\ e.linger = o.linger
    BY <1>2, <1>5, SentObject DEF have, left
  <2> HIDE DEF e
  <2> QED
    BY <1>3, <1>5, <1>7, <2>1 DEF e, q, have, left, x
<1>8. CASE ~(have >= o.iv.len0)
  <2> DEFINE e == WithSent(o, have, left, v2)
  <2>1. /\ e \in Object /\ InBuffers(e) /\ e.haveSend = have /\ e.toSend = left /\ e.iv = v2
        /\ e.wbuf = o.wbuf /\ e.file = o.file /\ e.linger = o.linger
    BY <1>2, <1>6, <1>8, SentObject DEF have, left
  <2> HIDE DEF e
  <2> QED
    BY <1>4, <1>6, <1>8, <2>1 DEF e, q, have, left, y
<1> QED
  BY <1>7, <1>8

\* While at most one call has ended inside the header, m_iv describes what is
\* left of the answer.
LEMMA IovIsRest ==
  ASSUME TypeOK, ans.code = "FILE_REQUEST", Writing, Described
  PROVE  /\ Len(Iov(obj)) = obj.toSend
         /\ \A i \in 1 .. obj.toSend : Iov(obj)[i] = Answer[obj.haveSend + i]
<1> DEFINE v == obj.iv
           have == obj.haveSend
           left == obj.toSend
           w == Iov(obj)
<1>1. obj \in Object /\ v \in IoVec
  BY DEF TypeOK, Object
<1>2. /\ have \in Nat /\ left \in Nat /\ FILE_LEN \in Nat /\ FILE_LEN # 0 /\ HEADER_LEN = 5
  BY <1>1, ConnectionAssumption DEF Object, HEADER_LEN
<1>3. /\ v.len0 \in Nat /\ v.len1 \in Nat /\ v.base0 \in Nat /\ v.base1 \in Int
  BY <1>1 DEF IoVec
<1>4. /\ obj.wbuf = Header(ans.code, ans.linger) /\ obj.file = ans.url
      /\ have < HEADER_LEN + FILE_LEN /\ left = HEADER_LEN + FILE_LEN - have
  BY DEF Writing
<1>5. ans \in [code : AnswerCodes, url : Int, linger : BOOLEAN]
  BY DEF TypeOK, AnswerCodes
<1>6. /\ Answer \in Seq(Byte) /\ Len(Answer) = HEADER_LEN + FILE_LEN
      /\ \A i \in 1 .. HEADER_LEN : Answer[i] = obj.wbuf[i]
      /\ \A i \in 1 .. FILE_LEN : Answer[HEADER_LEN + i] = FileByte(obj.file, i)
  BY <1>4, <1>5, AnswerTyped DEF Answer
<1>7. /\ w \in Seq(Byte) /\ Len(w) = v.len0 + v.len1
      /\ \A i \in 1 .. v.len0 : w[i] = HeaderByte(obj.wbuf, v.base0 + i)
      /\ \A i \in 1 .. v.len1 : w[v.len0 + i] = FileByte(obj.file, v.base1 + i)
  BY <1>1, IovTyped
<1>8. obj.wbuf \in Seq(Byte) /\ Len(obj.wbuf) = HEADER_LEN /\ DOMAIN obj.wbuf = 1 .. HEADER_LEN
  <2>1. ans.linger \in BOOLEAN /\ ans.code \in AnswerCodes
    BY <1>5
  <2>2. obj.wbuf \in Seq(Byte) /\ Len(obj.wbuf) = HEADER_LEN
    BY <1>4, <2>1, HeaderTyped
  <2> QED
    BY <2>2, LenProperties
<1>9. CASE have < HEADER_LEN
  <2>1. v.base0 = have /\ v.len0 = HEADER_LEN - have /\ v.base1 = 0 /\ v.len1 = FILE_LEN
    BY <1>9 DEF Described
  <2> HIDE DEF v, have, left, w
  <2>2. Len(w) = left
    BY <1>2, <1>4, <1>7, <2>1
  <2>3. ASSUME NEW i \in 1 .. left PROVE w[i] = Answer[have + i]
    <3>1. CASE i <= v.len0
      <4>1. i \in 1 .. v.len0 /\ have + i \in 1 .. HEADER_LEN
        BY <1>2, <1>3, <2>1, <3>1
      <4>2. w[i] = HeaderByte(obj.wbuf, have + i)
        BY <1>7, <2>1, <4>1
      <4>3. HeaderByte(obj.wbuf, have + i) = obj.wbuf[have + i]
        BY <1>8, <4>1 DEF HeaderByte
      <4> QED
        BY <1>6, <4>1, <4>2, <4>3
    <3>2. CASE ~(i <= v.len0)
      <4> DEFINE j == i - v.len0
      <4>1. /\ j \in 1 .. v.len1 /\ j \in 1 .. FILE_LEN /\ i = v.len0 + j
            /\ have + i = HEADER_LEN + j /\ v.base1 + j = j
        BY <1>2, <1>3, <1>4, <2>1, <3>2
      <4> HIDE DEF j
      <4>2. w[v.len0 + j] = FileByte(obj.file, v.base1 + j)
        BY <1>7, <4>1
      <4>3. Answer[HEADER_LEN + j] = FileByte(obj.file, j)
        BY <1>6, <4>1
      <4> QED
        BY <4>1, <4>2, <4>3
    <3> QED
      BY <3>1, <3>2
  <2> QED
    BY <2>2, <2>3 DEF w, have, left
<1>10. CASE ~(have < HEADER_LEN)
  <2>1. v.len0 = 0 /\ v.base1 = have - HEADER_LEN /\ v.len1 = left
    BY <1>2, <1>10 DEF Described
  <2> HIDE DEF v, have, left, w
  <2>2. Len(w) = left
    BY <1>2, <1>7, <2>1
  <2>3. ASSUME NEW i \in 1 .. left PROVE w[i] = Answer[have + i]
    <3> DEFINE j == v.base1 + i
    <3>1. i \in 1 .. v.len1 /\ v.len0 + i = i /\ j \in 1 .. FILE_LEN /\ have + i = HEADER_LEN + j
      BY <1>2, <1>3, <1>4, <1>10, <2>1
    <3> HIDE DEF j
    <3>2. w[v.len0 + i] = FileByte(obj.file, v.base1 + i)
      BY <1>7, <3>1
    <3>3. Answer[HEADER_LEN + j] = FileByte(obj.file, j)
      BY <1>6, <3>1
    <3> QED
      BY <3>1, <3>2, <3>3 DEF j
  <2> QED
    BY <2>2, <2>3 DEF w, have, left
<1> QED
  BY <1>9, <1>10

\* A prefix that is continued with what follows it is a longer prefix.
LEMMA PrefixContinued ==
  ASSUME NEW a \in Seq(Byte), NEW w \in Seq(Byte), NEW k \in Nat, NEW n \in Nat,
         k + Len(w) <= Len(a), n <= Len(w), \A i \in 1 .. Len(w) : w[i] = a[k + i]
  PROVE  /\ SubSeq(a, 1, k) \o SubSeq(w, 1, n) = SubSeq(a, 1, k + n)
         /\ IsPrefix(SubSeq(a, 1, k + n), a)
<1>1. Len(a) \in Nat /\ Len(w) \in Nat
  BY LenProperties
<1> DEFINE p == SubSeq(a, 1, k)
           s == SubSeq(w, 1, n)
           r == SubSeq(a, 1, k + n)
<1>2. p \in Seq(Byte) /\ Len(p) = k /\ \A i \in 1 .. k : p[i] = a[i]
  <2>1. \A i \in 1 .. k : a[i] \in Byte
    BY <1>1, ElementOfSeq
  <2>2. /\ p \in Seq(Byte) /\ Len(p) = (IF 1 <= k THEN k - 1 + 1 ELSE 0)
        /\ \A i \in 1 .. k - 1 + 1 : p[i] = a[1 + i - 1]
    BY <2>1, SubSeqProperties
  <2> HIDE DEF p
  <2> QED
    BY <2>2
<1>3. s \in Seq(Byte) /\ Len(s) = n /\ \A i \in 1 .. n : s[i] = w[i]
  <2>1. \A i \in 1 .. n : w[i] \in Byte
    BY <1>1, ElementOfSeq
  <2>2. /\ s \in Seq(Byte) /\ Len(s) = (IF 1 <= n THEN n - 1 + 1 ELSE 0)
        /\ \A i \in 1 .. n - 1 + 1 : s[i] = w[1 + i - 1]
    BY <2>1, SubSeqProperties
  <2> HIDE DEF s
  <2> QED
    BY <2>2
<1>4. r \in Seq(Byte) /\ Len(r) = k + n /\ \A i \in 1 .. k + n : r[i] = a[i]
  <2> DEFINE m == k + n
  <2>1. m \in Nat /\ m <= Len(a)
    BY <1>1
  <2> HIDE DEF m
  <2>2. \A i \in 1 .. m : a[i] \in Byte
    BY <1>1, <2>1, ElementOfSeq
  <2> DEFINE q == SubSeq(a, 1, m)
  <2>3. /\ q \in Seq(Byte) /\ Len(q) = (IF 1 <= m THEN m - 1 + 1 ELSE 0)
        /\ \A i \in 1 .. m - 1 + 1 : q[i] = a[1 + i - 1]
    BY <2>1, <2>2, SubSeqProperties
  <2> HIDE DEF q
  <2>4. q \in Seq(Byte) /\ Len(q) = m /\ \A i \in 1 .. m : q[i] = a[i]
    BY <2>1, <2>3
  <2> QED
    BY <2>4 DEF q, m
<1> HIDE DEF p, s, r
<1>5. /\ p \o s \in Seq(Byte) /\ Len(p \o s) = k + n
      /\ \A i \in 1 .. k + n : (p \o s)[i] = IF i <= k THEN p[i] ELSE s[i - k]
  <2>1. p \in Seq(Byte) /\ s \in Seq(Byte)
    BY <1>2, <1>3
  <2>2. /\ p \o s \in Seq(Byte) /\ Len(p \o s) = Len(p) + Len(s)
        /\ \A i \in 1 .. Len(p) + Len(s) :
             (p \o s)[i] = IF i <= Len(p) THEN p[i] ELSE s[i - Len(p)]
    BY <2>1, ConcatProperties
  <2>3. Len(p) = k /\ Len(s) = n
    BY <1>2, <1>3
  <2> QED
    BY <2>2, <2>3
<1>6. ASSUME NEW i \in 1 .. k + n PROVE (p \o s)[i] = r[i]
  <2>1. CASE i <= k
    <3>1. i \in 1 .. k
      BY <2>1
    <3>2. (p \o s)[i] = p[i]
      BY <1>5, <2>1
    <3> QED
      BY <1>2, <1>4, <3>1, <3>2
  <2>2. CASE ~(i <= k)
    <3> DEFINE j == i - k
    <3>1. j \in 1 .. n /\ j \in 1 .. Len(w) /\ k + j = i
      BY <1>1, <2>2
    <3> HIDE DEF j
    <3>2. (p \o s)[i] = s[j]
      BY <1>5, <2>2 DEF j
    <3>3. s[j] = a[k + j]
      BY <1>3, <3>1
    <3> QED
      BY <1>4, <3>1, <3>2, <3>3
  <2> QED
    BY <2>1, <2>2
<1>7. p \o s = r
  BY <1>4, <1>5, <1>6, SeqEqual
<1>8. IsPrefix(r, a)
  BY <1>1, <1>4 DEF IsPrefix, r
<1> QED
  BY <1>7, <1>8 DEF p, s, r

\* An object whose file has been unmapped.
Unmapped(o) == [o EXCEPT !.file = 0]

\* Its type.
LEMMA UnmappedTyped ==
  ASSUME NEW o \in Object, InBuffers(o)
  PROVE  LET q == Unmapped(o)
         IN q \in Object /\ InBuffers(q) /\ q.iv = o.iv /\ q.file = 0
<1> DEFINE q == Unmapped(o)
<1>1. q \in Object
  BY DEF Object, Unmapped
<1>2. /\ q.iv = o.iv /\ q.file = 0 /\ q.read = o.read /\ q.start = o.start
      /\ q.checked = o.checked /\ q.wbuf = o.wbuf
  BY DEF Object, Unmapped
<1> HIDE DEF q
<1>3. InBuffers(q)
  BY <1>2 DEF InBuffers
<1> QED
  BY <1>1, <1>2, <1>3 DEF q

\* Types after a call of writev.
LEMMA WriteTyped ==
  ASSUME TypeOK, obj' \in Object, InBuffers(obj'), at' \in {"closed", "in", "out", "parse", "write"},
         ls' = ls, conn' = conn, stream' = stream, fresh' = fresh, pos' = pos,
         base' = base, split' = split, ans' = ans, out' \in Seq(Byte), cut' \in Nat
  PROVE  TypeOK'
<1>1. (InBuffers(obj))'
  BY DEF InBuffers
<1>2. base' \in Nat /\ pos' \in Nat /\ base' <= pos' /\ pos' <= Len(stream')
  BY DEF TypeOK
<1>3. /\ ls' \in {"LINE_OK", "LINE_OPEN", "LINE_BAD"}
      /\ conn' \in 0 .. MaxConns /\ stream' \in Seq(Byte \ {NUL})
      /\ split' \in BOOLEAN /\ fresh' \in BOOLEAN
      /\ ans' \in [code : Codes, url : Int, linger : BOOLEAN]
  BY DEF TypeOK
<1> QED
  BY <1>1, <1>2, <1>3 DEF TypeOK

\* writev takes part of the answer, or the rest of it.
LEMMA WriteSomeCorrect ==
  ASSUME ConnectionInvariant, NEW n \in 1 .. obj.toSend, WriteSome(n)
  PROVE  ConnectionInvariant'
<1> DEFINE o == Advance(obj, n)
           w == Iov(obj)
           have == obj.haveSend
           left == obj.toSend
<1>1. TypeOK /\ WriteInvariant /\ obj \in Object /\ InBuffers(obj)
  BY DEF ConnectionInvariant, TypeOK
<1>2. /\ at \in {"out", "write"} /\ left # 0 /\ n <= Len(w)
      /\ out' = out \o SubSeq(w, 1, n)
      /\ cut' = IF n < obj.iv.len0 THEN cut + 1 ELSE cut
      /\ ls' = ls /\ conn' = conn /\ stream' = stream /\ fresh' = fresh
      /\ pos' = pos /\ ans' = ans
  BY DEF WriteSome, client
<1>3. ~Sent(o) => obj' = o /\ at' = "write" /\ base' = base /\ split' = split
  BY DEF WriteSome, turn
<1>4. Sent(o) /\ obj.linger =>
        obj' = init(Unmapped(o)) /\ at' = "in" /\ base' = pos /\ split' = FALSE
  BY DEF WriteSome, Unmapped
<1>5. Sent(o) /\ ~obj.linger =>
        obj' = Unmapped(o) /\ at' = "closed" /\ base' = base /\ split' = split
  BY DEF WriteSome, turn, Unmapped
<1>6. /\ o \in Object /\ InBuffers(o) /\ o.haveSend = have + n /\ o.toSend = left - n
      /\ o.wbuf = obj.wbuf /\ o.file = obj.file /\ o.linger = obj.linger
      /\ have + n >= obj.iv.len0 =>
           o.iv.len0 = 0 /\ o.iv.base1 = (have + n) - Len(obj.wbuf) /\ o.iv.len1 = left - n
      /\ ~(have + n >= obj.iv.len0) =>
           /\ o.iv.base0 = have + n /\ o.iv.len0 = obj.iv.len0 - n
           /\ o.iv.base1 = obj.iv.base1 /\ o.iv.len1 = obj.iv.len1
  BY <1>1, AdvanceIs
<1> HIDE DEF o
<1>7. have \in Nat /\ left \in Nat /\ n \in Nat /\ n <= left /\ obj.iv.len0 \in Nat /\ cut \in Nat
  <2>1. have \in Nat /\ left \in Nat /\ obj.iv \in IoVec
    BY <1>1 DEF Object
  <2>2. obj.iv.len0 \in Nat
    BY <2>1 DEF IoVec
  <2>3. cut \in Nat
    BY <1>1 DEF TypeOK
  <2>4. n \in Nat /\ n <= left
    BY <2>1
  <2> QED
    BY <2>1, <2>2, <2>3, <2>4
<1>8. w \in Seq(Byte) /\ out \in Seq(Byte)
  BY <1>1, IovTyped DEF TypeOK
<1>9. out' \in Seq(Byte) /\ cut' \in Nat
  <2>1. SubSeq(w, 1, n) \in Seq(Byte)
    <3>1. \A i \in 1 .. n : w[i] \in Byte
      BY <1>2, <1>7, <1>8, ElementOfSeq, LenProperties
    <3> QED
      BY <1>7, <3>1, SubSeqProperties
  <2>2. out' \in Seq(Byte)
    BY <1>2, <1>8, <2>1, ConcatProperties
  <2>3. cut' \in Nat
    BY <1>2, <1>7
  <2> QED
    BY <2>2, <2>3
<1> HIDE DEF w, have, left
<1>10. ASSUME fresh
       PROVE  /\ ans.code = "FILE_REQUEST" /\ ans # NoAnswer
              /\ ans \in [code : AnswerCodes, url : Int, linger : BOOLEAN] /\ Writing
              /\ obj.wbuf = Header(ans.code, ans.linger)
              /\ obj.file = ans.url /\ obj.linger = ans.linger
              /\ have < HEADER_LEN + FILE_LEN /\ left = HEADER_LEN + FILE_LEN - have
  <2>1. Writing
    BY <1>1, <1>2, <1>10 DEF WriteInvariant
  <2>2. ans.code = "FILE_REQUEST"
    BY <1>2, <2>1 DEF Writing, left
  <2>3. ans \in [code : AnswerCodes, url : Int, linger : BOOLEAN]
    BY <1>1, <2>2 DEF TypeOK, AnswerCodes
  <2> QED
    BY <2>1, <2>2, <2>3 DEF Writing, NoAnswer, have, left
<1>11. HEADER_LEN = 5 /\ FILE_LEN \in Nat /\ FILE_LEN # 0
  BY ConnectionAssumption DEF HEADER_LEN
<1>12. ASSUME fresh, cut' <= 1
       PROVE  cut <= 1 /\ Described /\ out' = SubSeq(Answer, 1, have + n) /\ IsPrefix(out', Answer)
  <2>1. cut <= 1
    BY <1>2, <1>7, <1>12
  <2>2. Described
    BY <1>10, <1>12, <2>1 DEF Writing
  <2>3. Len(w) = left /\ \A i \in 1 .. left : w[i] = Answer[have + i]
    BY <1>1, <1>10, <1>12, <2>2, IovIsRest DEF w, have, left
  <2>4. Answer \in Seq(Byte) /\ Len(Answer) = HEADER_LEN + FILE_LEN
    BY <1>10, <1>12, AnswerTyped DEF Answer
  <2>5. have + Len(w) <= Len(Answer)
    BY <1>7, <1>10, <1>11, <1>12, <2>3, <2>4
  <2>6. /\ SubSeq(Answer, 1, have) \o SubSeq(w, 1, n) = SubSeq(Answer, 1, have + n)
        /\ IsPrefix(SubSeq(Answer, 1, have + n), Answer)
    BY <1>2, <1>7, <1>8, <2>3, <2>4, <2>5, PrefixContinued
  <2>7. out = SubSeq(Answer, 1, have)
    BY <2>2 DEF Described, have
  <2> QED
    BY <1>2, <2>1, <2>2, <2>6, <2>7
<1>13. SentInOrder'
  BY <1>2, <1>12 DEF SentInOrder, Answer
<1>14. CASE ~Sent(o)
  <2>1. TypeOK'
    BY <1>1, <1>2, <1>3, <1>6, <1>9, <1>14, WriteTyped
  <2>2. obj' = o /\ at' = "write" /\ o.toSend # 0 /\ left - n > 0
    BY <1>3, <1>6, <1>7, <1>14 DEF Sent
  <2>3. ASSUME fresh PROVE Writing'
    <3>1. have + n < HEADER_LEN + FILE_LEN /\ left - n = HEADER_LEN + FILE_LEN - (have + n)
      BY <1>7, <1>10, <1>11, <2>2, <2>3
    <3>2. ASSUME cut' <= 1 PROVE Described'
      <4>1. Described /\ out' = SubSeq(Answer, 1, have + n)
        BY <1>12, <2>3, <3>2
      <4>2. Len(obj.wbuf) = HEADER_LEN
        BY <1>10, <2>3, HeaderTyped
      <4>3. CASE n < obj.iv.len0
        <5>1. cut = 0
          BY <1>2, <1>7, <3>2, <4>3
        <5>2. have < HEADER_LEN
          BY <1>7, <1>11, <4>1, <4>3 DEF Described, have
        <5>3. have = 0 /\ obj.iv.len0 = HEADER_LEN /\ obj.iv.base1 = 0 /\ obj.iv.len1 = FILE_LEN
          BY <1>11, <4>1, <5>1, <5>2 DEF Described, have
        <5>4. /\ have + n < HEADER_LEN /\ ~(have + n >= obj.iv.len0) /\ cut' # 0
              /\ obj.iv.len0 - n = HEADER_LEN - (have + n)
          BY <1>2, <1>7, <1>11, <4>3, <5>1, <5>3
        <5>5. /\ o.iv.base0 = have + n /\ o.iv.len0 = HEADER_LEN - (have + n)
              /\ o.iv.base1 = 0 /\ o.iv.len1 = FILE_LEN
          BY <1>6, <5>3, <5>4
        <5>6. ~(have + n >= HEADER_LEN)
          BY <1>7, <1>11, <5>4
        <5> QED
          BY <1>2, <1>6, <2>2, <4>1, <5>4, <5>5, <5>6 DEF Described, Answer
      <4>4. CASE ~(n < obj.iv.len0)
        <5>1. have + n >= HEADER_LEN /\ have + n >= obj.iv.len0
          <6>1. CASE have < HEADER_LEN
            <7>1. obj.iv.len0 = HEADER_LEN - have
              BY <4>1, <6>1 DEF Described, have
            <7> QED
              BY <1>7, <1>11, <4>4, <6>1, <7>1
          <6>2. CASE ~(have < HEADER_LEN)
            BY <1>7, <1>11, <4>4, <6>2
          <6> QED
            BY <6>1, <6>2
        <5>2. o.iv.len0 = 0 /\ o.iv.base1 = (have + n) - HEADER_LEN /\ o.iv.len1 = left - n
          BY <1>6, <4>2, <5>1
        <5>3. ~(have + n < HEADER_LEN)
          BY <1>7, <1>11, <5>1
        <5> QED
          BY <1>2, <1>6, <2>2, <4>1, <5>2, <5>3 DEF Described, Answer
      <4> QED
        BY <4>3, <4>4
    <3> QED
      BY <1>2, <1>6, <1>10, <2>2, <2>3, <3>1, <3>2 DEF Writing
  <2>4. WriteInvariant'
    BY <1>2, <2>2, <2>3 DEF WriteInvariant
  <2>5. ParseInvariant' /\ AnswerComplete'
    BY <2>2 DEF ParseInvariant, AnswerComplete
  <2>6. SplitIndependent'
    <3>1. Current' = Current
      BY <1>2, <1>3, <1>14 DEF Current
    <3>2. SplitIndependent
      BY DEF ConnectionInvariant
    <3> QED
      BY <1>2, <3>1, <3>2 DEF SplitIndependent
  <2> QED
    BY <1>13, <2>1, <2>4, <2>5, <2>6 DEF ConnectionInvariant
<1>15. CASE Sent(o) /\ obj.linger
  <2>1. Unmapped(o).iv \in IoVec /\ Unmapped(o).file = 0
    <3>1. o.iv \in IoVec
      BY <1>6 DEF Object
    <3> QED
      BY <1>6, <3>1, UnmappedTyped
  <2>2. ASSUME fresh, cut' <= 1 PROVE ans.code = "FILE_REQUEST" /\ out' = Answer
    <3>1. have + n = HEADER_LEN + FILE_LEN
      BY <1>6, <1>7, <1>10, <1>11, <1>15, <2>2 DEF Sent
    <3>2. Answer \in Seq(Byte) /\ Len(Answer) = HEADER_LEN + FILE_LEN
      BY <1>10, <2>2, AnswerTyped DEF Answer
    <3>3. SubSeq(Answer, 1, Len(Answer)) = Answer
      BY <3>2, SubSeqFull
    <3> QED
      BY <1>10, <1>12, <2>2, <3>1, <3>2, <3>3
  <2> QED
    BY <1>2, <1>4, <1>9, <1>13, <1>15, <2>1, <2>2, NextRequest
<1>16. CASE Sent(o) /\ ~obj.linger
  <2>1. obj' = Unmapped(o) /\ at' = "closed" /\ base' = base /\ split' = split
    BY <1>5, <1>16
  <2>2. obj' \in Object /\ InBuffers(obj') /\ obj'.file = 0
    BY <1>6, <2>1, UnmappedTyped
  <2>3. TypeOK'
    BY <1>1, <1>2, <1>9, <2>1, <2>2, WriteTyped
  <2>4. ParseInvariant' /\ SplitIndependent' /\ AnswerComplete' /\ WriteInvariant'
    BY <2>1, <2>2 DEF ParseInvariant, SplitIndependent, AnswerComplete, WriteInvariant
  <2> QED
    BY <1>13, <2>3, <2>4 DEF ConnectionInvariant
<1> QED
  BY <1>14, <1>15, <1>16

\* writev would block: write() is called again when EPOLLOUT is reported.
LEMMA WriteBlocksCorrect ==
  ASSUME ConnectionInvariant, WriteBlocks
  PROVE  ConnectionInvariant'
<1>1. TypeOK /\ WriteInvariant /\ SplitIndependent /\ SentInOrder /\ obj \in Object /\ InBuffers(obj)
  BY DEF ConnectionInvariant, TypeOK
<1>2. /\ at = "write" /\ at' = "out" /\ obj' = obj /\ ls' = ls /\ conn' = conn /\ stream' = stream
      /\ fresh' = fresh /\ pos' = pos /\ base' = base /\ split' = split
      /\ ans' = ans /\ out' = out /\ cut' = cut
  BY DEF WriteBlocks, client, turn
<1>3. TypeOK'
  BY <1>1, <1>2 DEF TypeOK, InBuffers
<1>4. ASSUME fresh PROVE Writing'
  <2>1. Writing
    BY <1>1, <1>2, <1>4 DEF WriteInvariant
  <2>2. Described => Described'
    BY <1>2 DEF Described, Answer
  <2> QED
    BY <1>2, <2>1, <2>2 DEF Writing
<1>5. WriteInvariant'
  BY <1>1, <1>2, <1>4 DEF WriteInvariant
<1>6. ParseInvariant' /\ AnswerComplete'
  BY <1>2 DEF ParseInvariant, AnswerComplete
<1>7. SplitIndependent' /\ SentInOrder'
  BY <1>1, <1>2 DEF SplitIndependent, SentInOrder, Answer, Current
<1> QED
  BY <1>3, <1>5, <1>6, <1>7 DEF ConnectionInvariant

\* writev fails: the file is unmapped and the connection closed.
LEMMA WriteFailsCorrect ==
  ASSUME ConnectionInvariant, WriteFails
  PROVE  ConnectionInvariant'
<1>1. TypeOK /\ obj \in Object /\ InBuffers(obj) /\ out \in Seq(Byte) /\ cut \in Nat
  BY DEF ConnectionInvariant, TypeOK
<1>2. /\ obj' = Unmapped(obj) /\ at' = "closed" /\ ls' = ls /\ conn' = conn /\ stream' = stream
      /\ fresh' = fresh /\ pos' = pos /\ base' = base /\ split' = split
      /\ ans' = ans /\ out' = out /\ cut' = cut
  BY DEF WriteFails, client, turn, Unmapped
<1>3. obj' \in Object /\ InBuffers(obj') /\ obj'.file = 0
  BY <1>1, <1>2, UnmappedTyped
<1>4. TypeOK'
  BY <1>1, <1>2, <1>3, WriteTyped
<1> QED
  BY <1>2, <1>3, <1>4, ClosedCorrect

-----------------------------------------------------------------------------
(* The theorems.                                                            *)

\* A step in which nothing changes keeps the invariant.
LEMMA StutterCorrect ==
  ASSUME ConnectionInvariant, UNCHANGED vars
  PROVE  ConnectionInvariant'
<1>1. /\ at' = at /\ obj' = obj /\ ls' = ls /\ conn' = conn /\ stream' = stream
      /\ fresh' = fresh /\ pos' = pos /\ base' = base /\ split' = split
      /\ ans' = ans /\ out' = out /\ cut' = cut
  BY DEF vars, client, turn
<1>2. TypeOK'
  BY <1>1 DEF ConnectionInvariant, TypeOK, InBuffers
<1>3. Current' = Current /\ Answer' = Answer
  BY <1>1 DEF Current, Answer
<1>4. ParseInvariant'
  <2>1. Parsed(Current) => Parsed(Current)'
    BY <1>1, <1>3 DEF Parsed, ReadingLines, GotRequestLine, InBody
  <2> QED
    BY <1>1, <1>3, <2>1 DEF ConnectionInvariant, ParseInvariant
<1>5. WriteInvariant'
  <2>1. Described => Described'
    BY <1>1, <1>3 DEF Described
  <2>2. Writing => Writing'
    BY <1>1, <2>1 DEF Writing
  <2> QED
    BY <1>1, <2>2 DEF ConnectionInvariant, WriteInvariant
<1>6. SplitIndependent' /\ SentInOrder' /\ AnswerComplete'
  BY <1>1, <1>3 DEF ConnectionInvariant, SplitIndependent, SentInOrder, AnswerComplete
<1> QED
  BY <1>2, <1>4, <1>5, <1>6 DEF ConnectionInvariant

\* Every step of a connection, of its worker and of its client keeps the
\* invariant.
LEMMA NextCorrect ==
  ASSUME ConnectionInvariant, [Next]_vars
  PROVE  ConnectionInvariant'
<1>1. CASE \E s \in Streams : Accept(s)
  BY <1>1, AcceptCorrect
<1>2. CASE \E n \in 1 .. Left : Read(n)
  BY <1>2, ReadCorrect
<1>3. CASE \E n \in 0 .. Left : ReadFails(n)
  BY <1>3, ReadFailsCorrect
<1>4. CASE Close
  BY <1>4, CloseCorrect
<1>5. CASE LineOpen
  BY <1>5, LineOpenCorrect
<1>6. CASE RequestLine
  BY <1>6, RequestLineCorrect
<1>7. CASE HeaderLine
  BY <1>7, HeaderLineCorrect
<1>8. CASE Body
  BY <1>8, BodyCorrect
<1>9. CASE WriteNothing
  BY <1>9, WriteNothingCorrect
<1>10. CASE \E n \in 1 .. obj.toSend : WriteSome(n)
  BY <1>10, WriteSomeCorrect
<1>11. CASE WriteBlocks
  BY <1>11, WriteBlocksCorrect
<1>12. CASE WriteFails
  BY <1>12, WriteFailsCorrect
<1>13. CASE UNCHANGED vars
  BY <1>13, StutterCorrect
<1> QED
  BY <1>1, <1>2, <1>3, <1>4, <1>5, <1>6, <1>7, <1>8, <1>9, <1>10, <1>11, <1>12, <1>13 DEF Next

\* What the parser of http_conn.cpp has understood is what the bytes read so far
\* say as a whole, and m_iv describes what is left of the answer.
THEOREM ConnectionCorrect == Spec => []ConnectionInvariant
<1>1. ConnectionInvariant /\ [Next]_vars => ConnectionInvariant'
  BY NextCorrect
<1> QED
  BY <1>1, InitCorrect, PTL DEF Spec

\* m_start_line, m_checked_index and m_read_index of http_conn are in this order
\* inside the read buffer, whatever the client sends and however read() gets it,
\* and an answer stays inside the write buffer.
THEOREM ConnectionTypes == Spec => []TypeOK
<1>1. ConnectionInvariant => TypeOK
  BY DEF ConnectionInvariant
<1> QED
  BY <1>1, ConnectionCorrect, PTL

\* However a request is split over calls of read(), process_read() makes of it
\* what its bytes say as a whole.
THEOREM ParseSplitIndependent == Spec => []SplitIndependent
<1>1. ConnectionInvariant => SplitIndependent
  BY DEF ConnectionInvariant
<1> QED
  BY <1>1, ConnectionCorrect, PTL

\* The invariant says when a request waits for more bytes.
LEMMA WaitsCorrect ==
  ASSUME ConnectionInvariant
  PROVE  WaitsOnlyForMore
<1> DEFINE b == Current
<1> SUFFICES ASSUME fresh, at = "in", Request(b).code # "NO_REQUEST"
             PROVE  split /\ obj.state = "CONTENT" /\ obj.checked > BodyStart(b)
  BY DEF WaitsOnlyForMore
<1>1. Parsed(b) /\ b \in Seq(Byte) /\ obj \in Object
  BY FreshParse
<1>2. obj.state # "CONTENT" => \A i \in Eols(b) : i < obj.start
  BY DEF ConnectionInvariant, ParseInvariant
<1> HIDE DEF b
<1>3. /\ Eols(b) \in SUBSET Nat /\ Blanks(b) \in SUBSET Nat
      /\ \A i \in Eols(b) : i \in Nat /\ 1 <= i
      /\ \A i \in Blanks(b) : i \in Eols(b)
  BY <1>1, EolsRange
<1>4. NoAnswer.code = "NO_REQUEST"
  BY DEF NoAnswer
<1>5. /\ Eols(b) # {}
      /\ IsGet(FirstLine(b)) => /\ Blanks(b) # {}
                                /\ ~(Len(b) < BodyStart(b) + LengthTo(b, Min(Blanks(b))))
  BY <1>4 DEF Request
<1>6. obj.state # "REQUESTLITE"
  <2> SUFFICES ASSUME obj.state = "REQUESTLITE" PROVE FALSE
    OBVIOUS
  <2>1. obj.start = 0 /\ obj.state # "CONTENT"
    BY <1>1 DEF Parsed
  <2> QED
    BY <1>2, <1>3, <1>5, <2>1
<1>7. obj.state # "HEADER"
  <2> SUFFICES ASSUME obj.state = "HEADER" PROVE FALSE
    OBVIOUS
  <2>1. GotRequestLine(obj, b) /\ \A i \in Blanks(b) : i >= obj.start
    BY <1>1 DEF Parsed
  <2>2. PICK i \in Blanks(b) : TRUE
    BY <1>5, <2>1 DEF GotRequestLine
  <2>3. i \in Nat /\ i >= obj.start /\ i < obj.start /\ obj.start \in Nat
    BY <1>1, <1>2, <1>3, <2>1, <2>2 DEF Object
  <2> QED
    BY <2>3
<1>8. obj.state = "CONTENT"
  BY <1>1, <1>6, <1>7 DEF Object
<1>9. InBody(b)
  BY <1>1, <1>8 DEF Parsed
<1>10. /\ GotRequestLine(obj, b) /\ Blanks(b) # {} /\ obj.clen = LengthTo(b, Min(Blanks(b)))
       /\ BodyStart(b) <= obj.checked
  BY <1>9 DEF InBody
<1>11. Min(Blanks(b)) \in Nat
  BY <1>3, <1>10, MinProperties
<1>12. BodyStart(b) \in Nat /\ obj.checked \in Nat /\ obj.clen \in Int /\ Len(b) \in Nat
  BY <1>1, <1>11, LenProperties DEF BodyStart, Object
<1>13. Len(b) >= BodyStart(b) + obj.clen
  <2>1. ~(Len(b) < BodyStart(b) + obj.clen)
    BY <1>5, <1>10 DEF GotRequestLine
  <2> QED
    BY <1>12, <2>1
<1>14. obj.checked # BodyStart(b) /\ split
  BY <1>9, <1>13 DEF InBody
<1> QED
  BY <1>8, <1>10, <1>12, <1>14

\* process_read() leaves a complete request waiting for more bytes in one case
\* only: the body came later than the headers, and parse_line() ran over it.
THEOREM ParseWaits == Spec => []WaitsOnlyForMore
<1>1. ConnectionInvariant => WaitsOnlyForMore
  BY WaitsCorrect
<1> QED
  BY <1>1, ConnectionCorrect, PTL

\* What write() has sent is a prefix of the answer, however writev() splits it,
\* as long as at most one call ended inside the header.
THEOREM AnswerInOrder == Spec => []SentInOrder
<1>1. ConnectionInvariant => SentInOrder
  BY DEF ConnectionInvariant
<1> QED
  BY <1>1, ConnectionCorrect, PTL

\* When write() initialises the object for the next request after a file, header
\* and file have been sent to the last byte and the file is unmapped.  Error
\* pages, which write() does not send, are not covered.
THEOREM AnswerWhole == Spec => []AnswerComplete
<1>1. ConnectionInvariant => AnswerComplete
  BY DEF ConnectionInvariant
<1> QED
  BY <1>1, ConnectionCorrect, PTL
=============================================================================
