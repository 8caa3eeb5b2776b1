---------------------------- MODULE HttpConnection ----------------------------
(***************************************************************************)
(* One http_conn object (bck/src/http_conn.cpp, bck/include/http_conn.h)   *)
(* and the connections that use it one after the other, users[] being      *)
(* indexed by the descriptor: reading in pieces, the two state machines    *)
(* that parse a request, and the answer written with writev in pieces.     *)
(* The calls come one at a time (HttpServer!OneHolder).                    *)
(*                                                                         *)
(* A byte is "\r", "\n", "\0" or stands for a text without line ends: a    *)
(* request line, a header, a byte of a body, a line of an answer, a byte   *)
(* of a file.                                                              *)
(***************************************************************************)
EXTENDS Integers, Sequences, SequencesExt, FiniteSetsExt

CONSTANTS
  Streams,            \* what a client may send on one connection
  Files, Dirs,        \* urls of files and of directories; others do not exist
  FILE_LEN,           \* st_size
  READ_BUFFER_SIZE, WRITE_BUFFER_SIZE,
  MaxConns            \* bound: connections on this descriptor

B(t, v) == [t |-> t, v |-> v]
CR == B("CR", 0)
LF == B("LF", 0)
NUL == B("NUL", 0)
Get(u) == B("GET", u)               \* GET u HTTP/1.1
KeepAlive == B("Connection", 1)     \* Connection: keep-alive
Length(n) == B("Content-Length", n)
Other == B("other", 0)

\* Bytes of a request, of an answer and of a file.
Kind == {"CR", "LF", "NUL", "GET", "Connection", "Content-Length", "other",
         "HTTP/1.1", "Content-Type", "blank", "content", "file", "garbage"}
Byte == [t : Kind, v : Int]

ASSUME ConnectionAssumption ==
  /\ READ_BUFFER_SIZE \in Nat /\ WRITE_BUFFER_SIZE \in Nat
  /\ FILE_LEN \in Nat \ {0} /\ MaxConns \in Nat
  /\ Files \subseteq Nat \ {0} /\ Dirs \subseteq Nat \ ({0} \cup Files)
\* A client sends no "\0": the C strings of the parser would end there.
ASSUME StreamAssumption == Streams \subseteq Seq(Byte \ {NUL})
\* Nor a negative length: the parser would write in front of the buffer.
ASSUME LengthAssumption ==
  \A s \in Streams : \A i \in DOMAIN s : s[i].t = "Content-Length" => s[i].v \in Nat
\* The status line, four headers and an error page fit into the write buffer.
ASSUME AnswerFits == WRITE_BUFFER_SIZE > 7

VARIABLES
  obj,      \* the members of the object
  at,       \* "closed"; "in", "out": watched for EPOLLIN, EPOLLOUT;
            \* "parse": in process_read; "write": in write()
  ls,       \* line_status in process_read
  conn,     \* number of the connection
  stream,   \* what its client sends
  pos,      \* how much of it has been read
  base,     \* history: pos when the object was last initialised
  split,    \* history: read() was called again after the empty line that ends
            \* the headers, so the body did not come at once
  fresh,    \* history: the object was as init() leaves it when accepted
  ans,      \* history: the last result of process_read, with url and m_linger
  out,      \* history: bytes written for it
  cut       \* history: calls of writev for it that ended inside the header

client == <<conn, stream, fresh>>
turn == <<base, split>>
vars == <<obj, at, ls, client, pos, turn, ans, out, cut>>

NoAnswer == [code |-> "NO_REQUEST", url |-> 0, linger |-> FALSE]

\* The object in the memory of users[].  new http_conn[MAX_FD] initialises
\* nothing; an array of this size comes on fresh pages, which are zero.
Zero == [read |-> <<>>, checked |-> 0, start |-> 0, state |-> "REQUESTLITE", url |-> 0,
         linger |-> FALSE, clen |-> 0, wbuf |-> <<>>, toSend |-> 0, haveSend |-> 0, file |-> 0,
         iv |-> [base0 |-> 0, len0 |-> 0, base1 |-> 0, len1 |-> 0, count |-> 0]]

\* http_conn::init().
init(o) == [Zero EXCEPT !.iv = o.iv, !.file = o.file]

Init ==
  /\ obj = Zero /\ at = "closed" /\ ls = "LINE_OK"
  /\ conn = 0 /\ stream = <<>> /\ pos = 0 /\ base = 0 /\ split = FALSE /\ fresh = TRUE
  /\ ans = NoAnswer /\ out = <<>> /\ cut = 0

-----------------------------------------------------------------------------
(* The lines of a request, by its bytes as a whole.                         *)

Eols(b) ==
  {i \in 1 .. Len(b) - 1 :
     /\ b[i] = CR /\ b[i + 1] = LF
     /\ \A j \in 1 .. i - 1 : (b[j] = CR) <=> (b[j + 1] = LF)
     /\ b[1] # LF}
LineStart(b, i) == Max({0} \cup {j + 1 : j \in {j \in Eols(b) : j < i}})
Line(b, i) == SubSeq(b, LineStart(b, i) + 1, i - 1)
Blanks(b) == {i \in Eols(b) : Line(b, i) = <<>> /\ i # Min(Eols(b))}

\* The bytes read since the object was last initialised.
Current == SubSeq(stream, base + 1, pos)

-----------------------------------------------------------------------------
(* Opening, reading and closing.                                            *)

\* init(sockfd, addr) leaves the members of the parse and of the answer alone.
Accept(s) ==
  /\ at = "closed" /\ conn < MaxConns
  /\ at' = "in"
  /\ conn' = conn + 1
  /\ stream' = s
  /\ pos' = 0 /\ base' = 0 /\ split' = FALSE
  /\ fresh' = (obj = init(obj))
  /\ ans' = NoAnswer /\ out' = <<>> /\ cut' = 0
  /\ UNCHANGED <<obj, ls>>

Receive(n) ==
  /\ at = "in" /\ Len(obj.read) < READ_BUFFER_SIZE
  /\ obj' = [obj EXCEPT !.read = @ \o SubSeq(stream, pos + 1, pos + n)]
  /\ pos' = pos + n
  /\ split' = (split \/ Blanks(Current) # {})
  /\ UNCHANGED <<client, base, ans, out, cut>>

\* Fault: the size of the buffer is not looked at.
ReadUnbounded(n) ==
  /\ Receive(n)
  /\ at' = "parse" /\ ls' = "LINE_OK"

\* read(): n bytes, all there is for now; append() hands it to a worker.
Read(n) ==
  /\ Receive(n)
  /\ Len(obj.read) + n <= READ_BUFFER_SIZE
  /\ at' = "parse" /\ ls' = "LINE_OK"

\* read() fails after n bytes: end of file, an error, or no room for more.
ReadFails(n) ==
  /\ Receive(n)
  /\ Len(obj.read) + n <= READ_BUFFER_SIZE
  /\ at' = "closed"
  /\ UNCHANGED ls

\* The buffer is full already, or epoll reports that the peer is gone:
\* close_conn().
Close ==
  /\ at \in {"in", "out"}
  /\ at' = "closed"
  /\ UNCHANGED <<obj, ls, client, pos, turn, ans, out, cut>>

-----------------------------------------------------------------------------
(* Parsing: process_read, on a worker.                                      *)

Ended(o, i, checked) ==
  [status |-> "LINE_OK",
   obj |-> [o EXCEPT !.read[i] = NUL, !.read[i + 1] = NUL, !.checked = checked]]

\* The next line end from m_checked_index on, replaced by two "\0"; a "\r" that
\* is the last byte so far is looked at again next time.
parse_line(o) ==
  LET n == Len(o.read)
      ends == {i \in o.checked + 1 .. n : o.read[i] \in {CR, LF}}
      i == Min(ends)
      Stop(status, c) == [status |-> status, obj |-> [o EXCEPT !.checked = c]]
  IN CASE ends = {} -> Stop("LINE_OPEN", n)
       [] ends # {} /\ o.read[i] = CR ->
            IF i = n THEN Stop("LINE_OPEN", i - 1)
            ELSE IF o.read[i + 1] = LF THEN Ended(o, i, i + 1) ELSE Stop("LINE_BAD", i - 1)
       [] ends # {} /\ o.read[i] = LF ->
            IF i > 2 /\ o.read[i - 1] = CR THEN Ended(o, i - 1, i) ELSE Stop("LINE_BAD", i - 1)

\* get_line() of the line that parse_line has just ended.
get_line(o) == SubSeq(o.read, o.start + 1, o.checked - 2)

\* stat and mmap.  The test of S_IROTH negates st_mode first and never holds.
do_request(o) ==
  IF o.url \in Files THEN "FILE_REQUEST"
  ELSE IF o.url \in Dirs THEN "BAD_REQUEST" ELSE "NO_RESOURCE"

\* add_response() of one line: dropped when it does not fit.
add_response(b, x) ==
  IF 1 >= WRITE_BUFFER_SIZE - 1 - Len(b) THEN b ELSE Append(b, x)

Status(code) == CASE code = "FILE_REQUEST" -> 200
                  [] code = "BAD_REQUEST" -> 400
                  [] code = "NO_RESOURCE" -> 404

\* add_status_line() and add_headers().
Header(code, linger) ==
  <<B("HTTP/1.1", Status(code)), B("Content-Length", Status(code)), B("Content-Type", 0),
    B("Connection", IF linger THEN 1 ELSE 0), B("blank", 0)>>
Content(code) == B("content", Status(code))

AddHeader(b, h) ==
  LET line1 == add_response(b, h[1])
      line2 == add_response(line1, h[2])
      line3 == add_response(line2, h[3])
      line4 == add_response(line3, h[4])
  IN add_response(line4, h[5])

\* process_write(code) for a file.
WriteFile(o) ==
  LET w == AddHeader(o.wbuf, Header("FILE_REQUEST", o.linger)) IN
  [o EXCEPT !.wbuf = w, !.file = o.url, !.toSend = Len(w) + FILE_LEN,
            !.iv = [base0 |-> 0, len0 |-> Len(w), base1 |-> 0, len1 |-> FILE_LEN, count |-> 2]]

\* process_write(code) for an error; m_bytes_to_send is left alone.
WriteError(o, code) ==
  LET w == add_response(AddHeader(o.wbuf, Header(code, o.linger)), Content(code)) IN
  [o EXCEPT !.wbuf = w, !.iv.base0 = 0, !.iv.len0 = Len(w), !.iv.count = 1]

\* The content of an error does not fit.
NoRoom(o, code) ==
  LET w == AddHeader(o.wbuf, Header(code, o.linger)) IN
  add_response(w, Content(code)) = w

\* process() with a result: the answer is built and EPOLLOUT asked for, or the
\* connection closed.
Reply(o, code) ==
  /\ IF code = "FILE_REQUEST"
       THEN obj' = WriteFile(o) /\ at' = "out"
       ELSE /\ obj' = WriteError(o, code)
            /\ at' = IF NoRoom(o, code) THEN "closed" ELSE "out"
  /\ ans' = [code |-> code, url |-> o.url, linger |-> o.linger]
  /\ out' = <<>> /\ cut' = 0
  /\ UNCHANGED <<ls, client, pos, turn>>

\* The loop goes on with object o.
GoOn(o, status) ==
  /\ obj' = o /\ ls' = status
  /\ UNCHANGED <<at, client, pos, turn, ans, out, cut>>

\* The loop condition calls parse_line() unless a body is expected.
Calls == at = "parse" /\ ~(obj.state = "CONTENT" /\ ls = "LINE_OK")

\* No further line: NO_REQUEST, and modfd(EPOLLIN).
LineOpen ==
  LET p == parse_line(obj) IN
  /\ Calls /\ p.status # "LINE_OK"
  /\ obj' = p.obj /\ ls' = p.status /\ at' = "in"
  /\ UNCHANGED <<client, pos, turn, ans, out, cut>>

\* parse_request_line(): GET, a url and HTTP/1.1, or BAD_REQUEST.
RequestLine ==
  LET p == parse_line(obj)
      text == get_line(p.obj)
      o == [p.obj EXCEPT !.start = p.obj.checked]
  IN /\ Calls /\ p.status = "LINE_OK" /\ obj.state = "REQUESTLITE"
     /\ IF Len(text) = 1 /\ text[1].t = "GET"
          THEN GoOn([o EXCEPT !.url = text[1].v, !.state = "HEADER"], "LINE_OK")
          ELSE Reply(o, "BAD_REQUEST")

\* parse_request_header(): a header, or the empty line at the end, after which
\* the request is complete or its body is expected.
HeaderLine ==
  LET p == parse_line(obj)
      text == get_line(p.obj)
      o == [p.obj EXCEPT !.start = p.obj.checked]
  IN /\ Calls /\ p.status = "LINE_OK" /\ obj.state = "HEADER"
     /\ IF text = <<>>
          THEN IF o.clen # 0 THEN GoOn([o EXCEPT !.state = "CONTENT"], "LINE_OK")
                             ELSE Reply(o, do_request(o))
          ELSE GoOn([o EXCEPT !.linger = @ \/ text = <<KeepAlive>>,
                              !.clen = IF text[1].t = "Content-Length" THEN text[1].v ELSE @],
                    "LINE_OK")

\* Fault: the body counts as complete one byte early.
EnoughEarly(o) == Len(o.read) + 1 >= o.clen + o.checked

\* Fault: > instead of >=.
EnoughLate(o) == Len(o.read) > o.clen + o.checked

\* The test of parse_request_content().
Enough(o) == Len(o.read) >= o.clen + o.checked

\* parse_request_content(), from the start of the body or from the end of a line
\* that parse_line() found in it; get_line() is called before m_start_line moves.
\* The "\0" behind the body falls at most one byte behind what was read, where
\* it changes nothing: if the buffer is full, that byte of m_read_index is 0.
Body ==
  LET p == IF Calls THEN parse_line(obj) ELSE [status |-> "LINE_OK", obj |-> obj]
      o == [p.obj EXCEPT !.start = p.obj.checked]
      z == obj.start + o.clen + 1
  IN /\ at = "parse" /\ obj.state = "CONTENT" /\ p.status = "LINE_OK"
     /\ IF Enough(o)
          THEN Reply(IF z \in DOMAIN o.read THEN [o EXCEPT !.read[z] = NUL] ELSE o, do_request(o))
          ELSE GoOn(o, "LINE_OPEN")

-----------------------------------------------------------------------------
(* Answering: write(), on the main thread.                                  *)

\* m_bytes_to_send is 0, as it is for every error page (process_write sets it
\* for a file only): the page is dropped, EPOLLIN, and init().
WriteNothing ==
  /\ at = "out" /\ obj.toSend = 0
  /\ obj' = init(obj)
  /\ at' = "in" /\ base' = pos /\ split' = FALSE
  /\ UNCHANGED <<ls, client, pos, ans, out, cut>>

\* The bytes m_iv describes; what lies outside the header or the file is anything.
\* m_iv_count needs no look: writev is called for a file only, with both entries.
Garbage == B("garbage", 0)
FileByte(u, i) == IF i \in 1 .. FILE_LEN THEN B("file", 10 * u + i) ELSE Garbage
HeaderByte(w, i) == IF i \in DOMAIN w THEN w[i] ELSE Garbage
Iov(o) ==
  [i \in 1 .. o.iv.len0 |-> HeaderByte(o.wbuf, o.iv.base0 + i)]
    \o [i \in 1 .. o.iv.len1 |-> FileByte(o.file, o.iv.base1 + i)]

\* Fault: the header is not taken off the offset into the file.
AdvanceFromStart(o, n) ==
  LET have == o.haveSend + n IN
  IF have >= o.iv.len0
    THEN [o EXCEPT !.haveSend = have, !.toSend = @ - n,
                   !.iv.len0 = 0, !.iv.base1 = have, !.iv.len1 = o.toSend - n]
    ELSE [o EXCEPT !.haveSend = have, !.toSend = @ - n,
                   !.iv.base0 = have, !.iv.len0 = @ - n]

\* The members after writev has taken n bytes.
Advance(o, n) ==
  LET have == o.haveSend + n IN
  IF have >= o.iv.len0
    THEN [o EXCEPT !.haveSend = have, !.toSend = @ - n,
                   !.iv.len0 = 0, !.iv.base1 = have - Len(o.wbuf), !.iv.len1 = o.toSend - n]
    ELSE [o EXCEPT !.haveSend = have, !.toSend = @ - n,
                   !.iv.base0 = have, !.iv.len0 = @ - n]

\* Fault: the answer counts as sent when one byte is left.
SentAlmost(o) == o.toSend <= 1

Sent(o) == o.toSend <= 0

\* writev takes n bytes.  After the last one: unmap(), and the connection is
\* initialised for the next request or closed.
WriteSome(n) ==
  LET o == Advance(obj, n) IN
  /\ at \in {"out", "write"} /\ obj.toSend # 0
  /\ n <= Len(Iov(obj))
  /\ out' = out \o SubSeq(Iov(obj), 1, n)
  /\ cut' = IF n < obj.iv.len0 THEN cut + 1 ELSE cut
  /\ IF ~Sent(o)
       THEN obj' = o /\ at' = "write" /\ UNCHANGED turn
       ELSE IF obj.linger
              THEN obj' = init([o EXCEPT !.file = 0]) /\ at' = "in" /\ base' = pos /\ split' = FALSE
              ELSE obj' = [o EXCEPT !.file = 0] /\ at' = "closed" /\ UNCHANGED turn
  /\ UNCHANGED <<ls, client, pos, ans>>

\* EAGAIN: EPOLLOUT again.
WriteBlocks ==
  /\ at = "write"
  /\ at' = "out"
  /\ UNCHANGED <<obj, ls, client, pos, turn, ans, out, cut>>

\* Any other error: unmap(), and close_conn().
WriteFails ==
  /\ at \in {"out", "write"} /\ obj.toSend # 0
  /\ obj' = [obj EXCEPT !.file = 0]
  /\ at' = "closed"
  /\ UNCHANGED <<ls, client, pos, turn, ans, out, cut>>

-----------------------------------------------------------------------------

Left == Len(stream) - pos

Next ==
  \/ \E s \in Streams : Accept(s)
  \/ \E n \in 1 .. Left : Read(n)
  \/ \E n \in 0 .. Left : ReadFails(n)
  \/ Close
  \/ LineOpen \/ RequestLine \/ HeaderLine \/ Body
  \/ WriteNothing
  \/ \E n \in 1 .. obj.toSend : WriteSome(n)
  \/ WriteBlocks \/ WriteFails

Spec == Init /\ [][Next]_vars

-----------------------------------------------------------------------------
(* What a request is, by its bytes as a whole (continued).                  *)

BodyStart(b) == Min(Blanks(b)) + 1

\* The headers that end before k, and what they say.
HeadersTo(b, k) == {i \in Eols(b) : i # Min(Eols(b)) /\ i < k}
LengthsTo(b, k) == {i \in HeadersTo(b, k) : Line(b, i)[1].t = "Content-Length"}
LengthTo(b, k) == IF LengthsTo(b, k) = {} THEN 0 ELSE Line(b, Max(LengthsTo(b, k)))[1].v
LingerTo(b, k) == \E i \in HeadersTo(b, k) : Line(b, i) = <<KeepAlive>>

FirstLine(b) == Line(b, Min(Eols(b)))
IsGet(line) == Len(line) = 1 /\ line[1].t = "GET"

\* The request in b: none yet, a malformed one, or one for a url.
Request(b) ==
  IF Eols(b) = {} THEN NoAnswer
  ELSE IF ~IsGet(FirstLine(b)) THEN [NoAnswer EXCEPT !.code = "BAD_REQUEST"]
  ELSE IF Blanks(b) = {} THEN NoAnswer
  ELSE IF Len(b) < BodyStart(b) + LengthTo(b, Min(Blanks(b))) THEN NoAnswer
  ELSE LET u == FirstLine(b)[1].v IN
       [code |-> do_request([url |-> u]), url |-> u, linger |-> LingerTo(b, Min(Blanks(b)))]

-----------------------------------------------------------------------------

IoVec == [base0 : Nat, len0 : Nat, base1 : Int, len1 : Nat, count : {0, 1, 2}]
Object ==
  [read : Seq(Byte), checked : Nat, start : Nat, state : {"REQUESTLITE", "HEADER", "CONTENT"},
   url : Int, linger : BOOLEAN, clen : Int, wbuf : Seq(Byte), toSend : Nat, haveSend : Nat,
   file : {0} \cup Files, iv : IoVec]
Codes == {"NO_REQUEST", "FILE_REQUEST", "BAD_REQUEST", "NO_RESOURCE"}

InBuffers(o) ==
  /\ o.start <= o.checked /\ o.checked <= Len(o.read)
  /\ Len(o.read) <= READ_BUFFER_SIZE /\ Len(o.wbuf) <= WRITE_BUFFER_SIZE

\* The types of the variables; indices are inside the buffers and in order.
TypeOK ==
  /\ obj \in Object /\ InBuffers(obj)
  /\ at \in {"closed", "in", "out", "parse", "write"}
  /\ ls \in {"LINE_OK", "LINE_OPEN", "LINE_BAD"}
  /\ conn \in 0 .. MaxConns /\ stream \in Seq(Byte \ {NUL})
  /\ base \in Nat /\ pos \in Nat /\ base <= pos /\ pos <= Len(stream)
  /\ split \in BOOLEAN /\ fresh \in BOOLEAN
  /\ ans \in [code : Codes, url : Int, linger : BOOLEAN]
  /\ out \in Seq(Byte) /\ cut \in Nat

\* However a request is split over calls of read(), what process_read makes of
\* it is what its bytes say as a whole.  For an object that was initialised.
SplitIndependent ==
  fresh /\ at \in {"out", "write"} =>
    ans = Request(Current)

\* A complete request is not left waiting for more bytes, but for one case: its
\* body was split, and the loop condition of process_read has let parse_line()
\* run over the first part of it, which is then not counted.
WaitsOnlyForMore ==
  fresh /\ at = "in" /\ Request(Current).code # "NO_REQUEST" =>
    split /\ obj.state = "CONTENT" /\ obj.checked > BodyStart(Current)

\* The answer to the request: header and file, or header and error page.
AnswerTo(a) ==
  Header(a.code, a.linger)
    \o (IF a.code = "FILE_REQUEST" THEN [i \in 1 .. FILE_LEN |-> FileByte(a.url, i)]
                                   ELSE <<Content(a.code)>>)
Answer == AnswerTo(ans)

\* What has been written is a prefix of the answer, however writev splits it,
\* provided that at most one call ended inside the header (after two of them
\* the length compared with m_bytes_have_send is no longer the header's).
SentInOrder ==
  fresh /\ cut <= 1 /\ ans # NoAnswer => IsPrefix(out, Answer)

\* When the next request is waited for after a file, the header and the file
\* have been sent to the last byte and the file is unmapped.  Nothing is said
\* of an error page: WriteNothing waits for the next request without sending it.
AnswerComplete ==
  fresh /\ cut <= 1 /\ at = "in" /\ pos = base /\ ans.code = "FILE_REQUEST" =>
    out = Answer /\ obj.file = 0

\* A client is answered with a file it asked for itself: init() for a new
\* connection starts a new request.
OwnAnswer ==
  at \in {"out", "write"} /\ ans.code = "FILE_REQUEST" =>
    \E i \in 1 .. pos : stream[i] = Get(ans.url)

-----------------------------------------------------------------------------
(* What is proved by induction (module HttpConnectionProofs).  For an object *)
(* that was initialised: what has been parsed is what the bytes up to there  *)
(* say as a whole.                                                           *)

\* The next line starts behind the line end that was found last.
AtLine(b, k) == k = 0 \/ k - 1 \in Eols(b)

\* Lines are still being read: the current one has been searched up to
\* m_checked_index, and everything from its start on is as it arrived.
ReadingLines(o, b) ==
  /\ Len(o.read) = Len(b) /\ AtLine(b, o.start)
  /\ o.start > 0 => o.read[o.start] = NUL
  /\ \A j \in o.start + 1 .. Len(b) : o.read[j] = b[j]
  /\ \A j \in o.start + 1 .. o.checked : b[j] # CR /\ b[j] # LF

GotRequestLine(o, b) == Eols(b) # {} /\ IsGet(FirstLine(b)) /\ o.url = FirstLine(b)[1].v

\* A body is expected.  It is searched for line ends when it does not come at
\* once, after which it is no longer counted from its start.
InBody(b) ==
  LET k == Min(Blanks(b))
      complete == Len(b) >= BodyStart(b) + obj.clen
  IN /\ GotRequestLine(obj, b) /\ Blanks(b) # {}
     /\ obj.clen = LengthTo(b, k) /\ (obj.linger <=> LingerTo(b, k))
     /\ BodyStart(b) <= obj.checked
     /\ complete /\ obj.checked # BodyStart(b) => split
     /\ complete /\ (at = "in" \/ ls # "LINE_OK") => obj.checked # BodyStart(b)

Parsed(b) ==
  /\ Len(obj.read) = Len(b)
  /\ obj.state = "REQUESTLITE" =>
       /\ ReadingLines(obj, b) /\ obj.start = 0
       /\ obj.url = 0 /\ ~obj.linger /\ obj.clen = 0
  /\ obj.state = "HEADER" =>
       /\ ReadingLines(obj, b) /\ obj.start > 0 /\ GotRequestLine(obj, b)
       /\ \A i \in Blanks(b) : i >= obj.start
       /\ obj.clen = LengthTo(b, obj.start) /\ (obj.linger <=> LingerTo(b, obj.start))
  /\ obj.state = "CONTENT" => InBody(b)

\* While a request is read; when more bytes are waited for, no line is left.
ParseInvariant ==
  fresh /\ at \in {"in", "parse"} =>
    /\ Parsed(Current)
    /\ at = "in" /\ obj.state # "CONTENT" => \A i \in Eols(Current) : i < obj.start
    /\ at = "parse" => base < pos

\* m_iv describes what is left of the answer, when at most one call of writev
\* has ended inside the header.
HEADER_LEN == 5
Described ==
  /\ out = SubSeq(Answer, 1, obj.haveSend)
  /\ obj.haveSend < HEADER_LEN =>
       /\ cut = 0 => obj.haveSend = 0
       /\ obj.iv.base0 = obj.haveSend /\ obj.iv.len0 = HEADER_LEN - obj.haveSend
       /\ obj.iv.base1 = 0 /\ obj.iv.len1 = FILE_LEN
  /\ obj.haveSend >= HEADER_LEN =>
       obj.iv.len0 = 0 /\ obj.iv.base1 = obj.haveSend - HEADER_LEN /\ obj.iv.len1 = obj.toSend

Writing ==
  IF ans.code = "FILE_REQUEST"
  THEN /\ obj.wbuf = Header(ans.code, ans.linger)
       /\ obj.file = ans.url /\ obj.linger = ans.linger
       /\ obj.haveSend < HEADER_LEN + FILE_LEN
       /\ obj.toSend = HEADER_LEN + FILE_LEN - obj.haveSend
       /\ cut <= 1 => Described
  ELSE ans # NoAnswer /\ at = "out" /\ obj.toSend = 0

WriteInvariant ==
  /\ obj.file # 0 => obj.toSend # 0
  /\ fresh /\ at \in {"in", "parse"} => obj.wbuf = <<>> /\ obj.toSend = 0 /\ obj.haveSend = 0
  /\ fresh /\ at \in {"out", "write"} => Writing

ConnectionInvariant ==
  /\ TypeOK /\ ParseInvariant /\ WriteInvariant
  /\ SplitIndependent /\ SentInOrder /\ AnswerComplete
=============================================================================
