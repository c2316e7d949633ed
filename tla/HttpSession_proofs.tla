------------------------- MODULE HttpSession_proofs -------------------------
(***************************************************************************)
(* Proofs about HttpSession, for every set of requests, every script and   *)
(* all limits that SessionAssumption allows: its type invariant, the bound *)
(* of the read buffer, the limits of a request, which responses come       *)
(* before a close; and that the stream stays framed: where requests begin  *)
(* is never lost, and each of them gets the answer it deserves.            *)
(***************************************************************************)
EXTENDS HttpSession, HttpConn_proofs

(* Where the request in front of a buffer ends, as the reset computes it.  *)
End(buf) == RequestEnd(HeaderEnd(buf), ExtractContentLength(buf, HeaderEnd(buf)))

(* What the reset will leave behind the response that is being sent, or    *)
(* what a request found in the buffer is answered from, is less than a     *)
(* header and one chunk; a connection that waits for input holds no        *)
(* complete request and less than the limits.                              *)
Small(buf) == Len(buf) < HeadLimit + RecvMax

ShortOfRequest(buf) == ~HasCompleteRequest(buf) /\ Len(buf) < HeadLimit + BodyLimit

RoomLeft ==
  /\ reg = "in" => ShortOfRequest(conn.rbuf)
  /\ reg = "out" /\ conn.ka => Small(ResetForNextRequest(conn).rbuf)
  /\ reg = "pipe" => Small(conn.rbuf)

SendsScript ==
  pos.req <= Len(script) => pos.unit <= Len(Wire(script[pos.req]))

(* A connection registered for EPOLLOUT has a response to send. *)
HasResponse == reg = "out" => conn.wbuf.status # ""

SessionInv == TypeOK /\ SendsScript /\ HasResponse /\ BufferBounded /\ RoomLeft

(* A request found in the buffer is whole, by its own account, and not the *)
(* connection's first.                                                     *)
PipeIsWhole == reg = "pipe" => answers # <<>> /\ HasCompleteRequest(conn.rbuf)

(* The k-th response, if it is a page, answers a request in the limits.    *)
InLimits(k, req, status) ==
  status = "page" => Request[req].cl <= BodyLimit \/ (k > 1 /\ Wraps(req))

NextInLimits ==
  reg = "out" => InLimits(Len(answers) + 1, conn.wbuf.req, conn.wbuf.status)

LimitsInv == PipeIsWhole /\ NextInLimits /\ LimitsHold

-----------------------------------------------------------------------------
(* find() on a growing buffer. *)

(* A header's end does not move when more arrives behind it, and is found  *)
(* in what arrived if it was not there before.                             *)
LEMMA HeaderEndStays ==
  ASSUME NEW buf \in Seq(Unit), NEW more \in Seq(Unit)
  PROVE  LET h == HeaderEnd(buf)
             k == HeaderEnd(buf \o more)
         IN  /\ h # 0 => k = h /\ End(buf \o more) = End(buf)
             /\ h = 0 /\ k # 0 => k > Len(buf)
  <1> DEFINE all == buf \o more
             h == HeaderEnd(buf)
             k == HeaderEnd(all)
  <1>1. all \in Seq(Unit) /\ Len(all) = Len(buf) + Len(more)
    OBVIOUS
  <1>2. \A i \in 1..Len(buf) : all[i] = buf[i] /\ i \in 1..Len(all)
    OBVIOUS
  <1>3. /\ h \in 0..Len(buf)
        /\ h # 0 => buf[h].kind = "head"
        /\ \A i \in 1..Len(buf) : buf[i].kind = "head" => h # 0 /\ h <= i
    BY HeaderEndFirst
  <1>4. /\ k \in 0..Len(all)
        /\ k # 0 => all[k].kind = "head"
        /\ \A i \in 1..Len(all) : all[i].kind = "head" => k # 0 /\ k <= i
    BY <1>1, HeaderEndFirst
  <1>5. Len(buf) \in Nat
    OBVIOUS
  <1> HIDE DEF all, h, k
  <1>6. h # 0 => k = h /\ all[k] = buf[h]
    BY <1>2, <1>3, <1>4, <1>5
  <1>7. h = 0 /\ k # 0 => k > Len(buf)
    BY <1>2, <1>3, <1>4, <1>5
  <1>8. h # 0 => End(all) = End(buf)
    BY <1>6 DEF End, ExtractContentLength, h, k
  <1> QED BY <1>6, <1>7, <1>8 DEF all, h, k

(* Lengths and ends of requests are naturals. *)
LEMMA EndType ==
  ASSUME NEW buf \in Seq(Unit), HeaderEnd(buf) # 0
  PROVE  /\ buf[HeaderEnd(buf)].req \in Req
         /\ ExtractContentLength(buf, HeaderEnd(buf)) \in Nat
         /\ End(buf) \in Nat
  <1> DEFINE h == HeaderEnd(buf)
             n == ExtractContentLength(buf, h)
  <1>1. h \in 1..Len(buf)
    BY HeaderEndType
  <1>2. buf[h] \in Unit
    BY <1>1
  <1>3. Request[buf[h].req] \in RequestInfo
    BY <1>2, HttpAssumption DEF Unit
  <1>4. n \in 0..(SizeMod - 1)
    BY <1>3 DEF RequestInfo, ExtractContentLength
  <1>5. h \in Nat /\ n \in Nat /\ h + n \in Nat
    BY <1>1, <1>4, HttpAssumption
  <1>6. ASSUME NEW a \in Nat, NEW m \in Nat \ {0} PROVE a % m \in Nat
    OBVIOUS
  <1>7. End(buf) = (h + n) % SizeMod
    BY DEF End, RequestEnd
  <1> HIDE DEF h, n
  <1>8. End(buf) \in Nat
    BY <1>5, <1>6, <1>7, HttpAssumption
  <1> QED BY <1>2, <1>5, <1>8 DEF Unit, h, n

(* What the reset leaves: the length of it. *)
LEMMA ResetLen ==
  ASSUME NEW c \in Conn
  PROVE  LET rest == ResetForNextRequest(c).rbuf IN
         /\ rest \in Seq(Unit)
         /\ Len(rest) <= Len(c.rbuf)
         /\ HeaderEnd(c.rbuf) # 0 /\ Len(rest) # 0 => Len(rest) = Len(c.rbuf) - End(c.rbuf)
         /\ HeaderEnd(c.rbuf) = 0 => Len(rest) = 0
  <1> DEFINE buf == c.rbuf
             h == HeaderEnd(buf)
             from == (IF End(buf) < Len(buf) THEN End(buf) ELSE Len(buf)) + 1
             rest == IF h = 0 THEN <<>> ELSE SubSeq(buf, from, Len(buf))
  <1>1. buf \in Seq(Unit)
    BY DEF Conn
  <1>2. ResetForNextRequest(c).rbuf = rest
    <2>1. c = [c EXCEPT !.rbuf = c.rbuf] /\ c \in Conn
      BY DEF Conn
    <2> QED BY <2>1 DEF ResetForNextRequest, Conn, End
  <1>3. h # 0 => End(buf) \in Nat
    BY <1>1, EndType
  <1> HIDE DEF buf, h
  <1>4. CASE h = 0
    BY <1>1, <1>2, <1>4 DEF buf, h
  <1>5. CASE h # 0
    <2>1. from \in 1..(Len(buf) + 1)
      BY <1>1, <1>3, <1>5
    <2>2. rest = SubSeq(buf, from, Len(buf))
      BY <1>5
    <2>3. SubSeq(buf, from, Len(buf)) \in Seq(Unit)
      BY <1>1, <2>1, SubSeqProperties
    <2>4. Len(SubSeq(buf, from, Len(buf))) = IF from <= Len(buf) THEN Len(buf) - from + 1 ELSE 0
      BY <1>1, <2>1, SubSeqProperties
    <2>5. Len(buf) \in Nat
      BY <1>1
    <2>6. from = IF End(buf) < Len(buf) THEN End(buf) + 1 ELSE Len(buf) + 1
      BY <1>3, <1>5, <2>5
    <2> HIDE DEF rest, from
    <2>7. /\ Len(rest) <= Len(buf)
          /\ Len(rest) # 0 => Len(rest) = Len(buf) - End(buf)
      BY <1>3, <1>5, <2>1, <2>2, <2>4, <2>5, <2>6
    <2> QED BY <1>2, <1>5, <2>2, <2>3, <2>7 DEF buf, h
  <1> QED BY <1>4, <1>5

(* What has been taken from the socket, cut in front of its m-th unit. *)
LEMMA SplitChunk ==
  ASSUME NEW buf \in Seq(Unit), NEW in \in Seq(Unit),
         NEW n \in 1..Len(in), NEW m \in 1..n
  PROVE  buf \o SubSeq(in, 1, n) = (buf \o SubSeq(in, 1, m - 1)) \o SubSeq(in, m, n)
  <1> DEFINE x == SubSeq(in, 1, n)
             y == SubSeq(in, 1, m - 1)
             z == SubSeq(in, m, n)
  <1>1. n \in Nat /\ m \in Nat /\ Len(in) \in Nat /\ Len(buf) \in Nat
    OBVIOUS
  <1>2. x \in Seq(Unit) /\ Len(x) = n /\ \A i \in 1..n : x[i] = in[i]
    BY <1>1, SubSeqProperties
  <1>3. y \in Seq(Unit) /\ Len(y) = m - 1 /\ \A i \in 1..(m - 1) : y[i] = in[i]
    BY <1>1, SubSeqProperties
  <1>4. z \in Seq(Unit) /\ Len(z) = n - m + 1 /\ \A i \in 1..(n - m + 1) : z[i] = in[m + i - 1]
    BY <1>1, SubSeqProperties
  <1> HIDE DEF x, y, z
  <1>5. x = y \o z
    <2>1. y \o z \in Seq(Unit) /\ Len(y \o z) = n
      <3>1. y \o z \in Seq(Unit) /\ Len(y \o z) = Len(y) + Len(z)
        BY <1>3, <1>4, ConcatProperties
      <3>2. n \in Nat /\ m \in Nat /\ Len(y) = m - 1 /\ Len(z) = n - m + 1
        BY <1>1, <1>3, <1>4
      <3>3. (m - 1) + (n - m + 1) = n
        BY <1>1
      <3> QED BY <3>1, <3>2, <3>3
    <2>2. ASSUME NEW i \in 1..n PROVE (y \o z)[i] = in[i]
      <3>1. CASE i <= m - 1
        BY <1>1, <1>3, <1>4, <3>1
      <3>2. CASE i > m - 1
        <4>1. (y \o z)[i] = z[i - (m - 1)]
          BY <1>1, <1>3, <1>4, <3>2
        <4>2. i - (m - 1) \in 1..(n - m + 1) /\ m + (i - (m - 1)) - 1 = i
          BY <1>1, <3>2
        <4> QED BY <1>4, <4>1, <4>2
      <3>3. i <= m - 1 \/ i > m - 1
        BY <1>1
      <3> QED BY <3>1, <3>2, <3>3
    <2>3. \A i \in 1..Len(x) : x[i] = (y \o z)[i]
      BY <1>2, <2>2
    <2>4. Len(x) = Len(y \o z)
      BY <1>2, <2>1
    <2> HIDE DEF x
    <2> QED BY <1>2, <2>1, <2>3, <2>4, SeqEqual
  <1>6. buf \o (y \o z) = (buf \o y) \o z
    BY <1>3, <1>4
  <1> QED BY <1>5, <1>6 DEF x, y, z

-----------------------------------------------------------------------------
(* read_once(). *)

(* While the loop of read_once() goes on, the buffer holds no complete     *)
(* request and less than the limits.                                       *)
LEMMA MoreIsShort ==
  ASSUME SessionAssumption, NEW buf \in Seq(Unit), ReadVerdict(buf) = "more"
  PROVE  ShortOfRequest(buf)
  <1> DEFINE h == HeaderEnd(buf)
             r == buf[h].req
  <1>1. h \in 0..Len(buf) /\ Len(buf) \in Nat
    BY HeaderEndType
  <1>2. CASE h = 0
    <2>1. Len(buf) <= HeadLimit
      BY <1>1, <1>2, HttpAssumption DEF ReadVerdict
    <2> QED BY <1>1, <1>2, <2>1, HttpAssumption, SessionAssumption DEF ShortOfRequest, HasCompleteRequest
  <1>3. CASE h # 0
    <2>1. /\ h <= HeadLimit
          /\ ParseRequest(buf).cl <= BodyLimit
          /\ ParseRequest(buf).method = "POST"
          /\ Len(buf) < RequestEnd(h, ParseRequest(buf).cl)
      <3>1. h \in Nat /\ HeadLimit \in Nat /\ ~(h > HeadLimit)
        BY <1>1, <1>3, HttpAssumption DEF ReadVerdict
      <3>2. ParseRequest(buf).cl \in Nat
        <4>1. EmptyRequest.cl \in Nat
          BY DEF EmptyRequest
        <4>2. Request[r].cl \in Nat
          BY <1>3, EndType DEF ExtractContentLength
        <4> QED BY <4>1, <4>2 DEF ParseRequest
      <3>3. ~(ParseRequest(buf).cl > BodyLimit)
        BY <1>3 DEF ReadVerdict
      <3>4. ParseRequest(buf).method = "POST" /\ Len(buf) < RequestEnd(h, ParseRequest(buf).cl)
        BY <1>3 DEF ReadVerdict
      <3> HIDE DEF h
      <3> QED BY <3>1, <3>2, <3>3, <3>4, HttpAssumption
    <2>2. ParseRequest(buf) = Request[r]
      BY <2>1 DEF ParseRequest, EmptyRequest
    <2>3. Request[r].cl \in Nat
      BY <1>3, EndType DEF ExtractContentLength
    <2>4. RequestEnd(h, Request[r].cl) = h + Request[r].cl
      <3>1. h \in Nat
        BY <1>1
      <3>2. h + Request[r].cl \in Nat /\ h + Request[r].cl < SizeMod
        BY <2>1, <2>2, <2>3, <3>1, HttpAssumption, SessionAssumption
      <3>3. ASSUME NEW a \in Nat, NEW m \in Nat \ {0}, a < m PROVE a % m = a
        BY <3>3
      <3> HIDE DEF h, r
      <3> QED BY <3>2, <3>3, HttpAssumption DEF RequestEnd
    <2>5. Len(buf) < h + Request[r].cl
      BY <2>1, <2>2, <2>4
    <2>6. ~HasCompleteRequest(buf)
      <3>1. ~(Len(buf) >= RequestEnd(h, Request[r].cl))
        BY <1>1, <2>3, <2>4, <2>5
      <3> QED BY <3>1 DEF HasCompleteRequest, ExtractContentLength
    <2>7. Len(buf) < HeadLimit + BodyLimit
      <3>1. h \in Nat
        BY <1>1
      <3> HIDE DEF h, r
      <3> QED BY <1>1, <2>1, <2>2, <2>3, <2>5, <3>1, HttpAssumption
    <2> QED BY <2>6, <2>7 DEF ShortOfRequest
  <1> QED BY <1>2, <1>3

(* A read that ends the loop starts its last chunk from a buffer that is   *)
(* short of a request, and takes no more than RecvMax units beyond it.     *)
LEMMA LastChunk ==
  ASSUME SessionAssumption,
         NEW buf \in Seq(Unit), ShortOfRequest(buf),
         NEW in \in Seq(Unit), NEW n \in ReadTakes(buf, in),
         n > 0, ReadVerdict(buf \o SubSeq(in, 1, n)) # "more"
  PROVE  /\ n \in 1..Len(in)
         /\ \E m \in 1..n :
              /\ n < m + RecvMax
              /\ ShortOfRequest(buf \o SubSeq(in, 1, m - 1))
  <1> DEFINE stops == {k \in 1..Len(in) : ReadVerdict(buf \o SubSeq(in, 1, k)) # "more"}
  <1>1. ReadTakes(buf, in) =
          IF stops = {} THEN {Len(in)}
          ELSE {k \in stops : \E m \in stops : k < m + RecvMax /\ \A j \in stops : m <= j}
    BY DEF ReadTakes
  <1>2. Len(in) \in Nat /\ Len(in) >= 0
    OBVIOUS
  <1>3. stops # {}
    <2> SUFFICES ASSUME stops = {} PROVE FALSE
      OBVIOUS
    <2>1. n = Len(in) /\ n \in 1..Len(in)
      BY <1>1, <1>2
    <2> QED BY <2>1
  <1>4. n \in stops
    BY <1>1, <1>3
  <1>5. PICK m \in stops : n < m + RecvMax /\ \A j \in stops : m <= j
    BY <1>1, <1>3
  <1>6. m \in 1..n /\ n \in 1..Len(in) /\ m \in 1..Len(in)
    BY <1>4, <1>5
  <1>7. ShortOfRequest(buf \o SubSeq(in, 1, m - 1))
    <2>1. CASE m = 1
      <3>1. SubSeq(in, 1, m - 1) = <<>>
        BY <2>1
      <3>2. buf \o <<>> = buf
        OBVIOUS
      <3> QED BY <3>1, <3>2
    <2>2. CASE m # 1
      <3>1. m - 1 \in 1..Len(in) /\ ~(m <= m - 1)
        BY <1>6, <2>2
      <3>2. m - 1 \notin stops
        BY <1>5, <3>1
      <3>3. ReadVerdict(buf \o SubSeq(in, 1, m - 1)) = "more"
        BY <3>1, <3>2
      <3>4. SubSeq(in, 1, m - 1) \in Seq(Unit)
        BY <3>1, SubSeqProperties
      <3>5. buf \o SubSeq(in, 1, m - 1) \in Seq(Unit)
        BY <3>4
      <3> QED BY <3>3, <3>5, MoreIsShort
    <2> QED BY <2>1, <2>2
  <1> QED BY <1>5, <1>6, <1>7

(* What a read leaves in the buffer: never more than the limits and a      *)
(* chunk; short of a request if the loop goes on; and if it returns READY, *)
(* little behind the first request.                                        *)
LEMMA ReadBounds ==
  ASSUME SessionAssumption,
         NEW c \in Conn, ShortOfRequest(c.rbuf),
         NEW in \in Seq(Unit), NEW n \in ReadTakes(c.rbuf, in)
  PROVE  LET d == AfterRead(c, in, n)
             v == ReadVerdict(d.rbuf)
         IN  /\ n \in 0..Len(in)
             /\ d \in Conn
             /\ d.rbuf = c.rbuf \o SubSeq(in, 1, n)
             /\ Len(d.rbuf) < HeadLimit + BodyLimit + RecvMax
             /\ n = 0 \/ v = "more" => ShortOfRequest(d.rbuf)
             /\ n > 0 /\ v = "READY" => Small(ResetForNextRequest(d).rbuf)
  <1> DEFINE buf == c.rbuf
             d == AfterRead(c, in, n)
             all == buf \o SubSeq(in, 1, n)
  <1> SUFFICES /\ n \in 0..Len(in)
               /\ d \in Conn
               /\ d.rbuf = all
               /\ Len(all) < HeadLimit + BodyLimit + RecvMax
               /\ n = 0 \/ ReadVerdict(all) = "more" => ShortOfRequest(all)
               /\ n > 0 /\ ReadVerdict(all) = "READY" => Small(ResetForNextRequest(d).rbuf)
    OBVIOUS
  <1>1. buf \in Seq(Unit)
    BY DEF Conn
  <1>2. n \in 0..Len(in)
    BY DEF ReadTakes
  <1>3. d \in Conn
    BY <1>2, ConnRead
  <1>4. d.rbuf = all
    BY DEF AfterRead, Conn
  <1>5. SubSeq(in, 1, n) \in Seq(Unit) /\ Len(SubSeq(in, 1, n)) = n
    BY <1>2, SubSeqProperties
  <1>6. all \in Seq(Unit) /\ Len(all) = Len(buf) + n /\ Len(buf) \in Nat
    BY <1>1, <1>5
  <1> HIDE DEF d, all, buf
  <1>7. CASE n = 0
    <2>1. all = buf
      BY <1>1, <1>7 DEF all
    <2> QED BY <1>2, <1>3, <1>4, <1>6, <1>7, <2>1, HttpAssumption DEF ShortOfRequest, buf
  <1>8. CASE n > 0 /\ ReadVerdict(all) = "more"
    <2>1. ShortOfRequest(all)
      BY <1>6, <1>8, MoreIsShort
    <2>2. Len(all) < HeadLimit + BodyLimit + RecvMax
      BY <1>6, <2>1, <1>2, HttpAssumption DEF ShortOfRequest
    <2> QED BY <1>2, <1>3, <1>4, <1>8, <2>1, <2>2
  <1>9. CASE n > 0 /\ ReadVerdict(all) # "more"
    <2>1. n \in 1..Len(in) /\ \E m \in 1..n :
            /\ n < m + RecvMax
            /\ ShortOfRequest(buf \o SubSeq(in, 1, m - 1))
      BY <1>1, <1>9, LastChunk DEF all, buf
    <2>2. PICK m \in 1..n : n < m + RecvMax /\ ShortOfRequest(buf \o SubSeq(in, 1, m - 1))
      BY <2>1
    <2> DEFINE p == buf \o SubSeq(in, 1, m - 1)
               q == SubSeq(in, m, n)
    <2>3. m \in Nat \ {0} /\ m - 1 \in 0..Len(in) /\ n \in Nat
      BY <2>1, <2>2
    <2>4. SubSeq(in, 1, m - 1) \in Seq(Unit) /\ Len(SubSeq(in, 1, m - 1)) = m - 1
      BY <2>3, SubSeqProperties
    <2>5. q \in Seq(Unit)
      BY <2>1, <2>3, SubSeqProperties
    <2>6. p \in Seq(Unit) /\ Len(p) = Len(buf) + (m - 1)
      BY <1>1, <2>4
    <2>7. all = p \o q
      <3> HIDE DEF p, q
      <3> QED BY <1>1, <2>1, <2>2, SplitChunk DEF all, p, q
    <2>8. ShortOfRequest(p)
      BY <2>2
    <2> HIDE DEF p, q
    <2>9. Len(all) < Len(p) + RecvMax + 1 /\ Len(p) < HeadLimit + BodyLimit
      BY <1>6, <2>2, <2>3, <2>6, <2>8, HttpAssumption DEF ShortOfRequest
    <2>10. Len(all) < HeadLimit + BodyLimit + RecvMax
      BY <1>6, <2>3, <2>6, <2>9, HttpAssumption
    <2>11. ASSUME ReadVerdict(all) = "READY" PROVE Small(ResetForNextRequest(d).rbuf)
      <3> DEFINE rest == ResetForNextRequest(d).rbuf
      <3>1. HeaderEnd(all) # 0 /\ HeaderEnd(all) <= HeadLimit
        <4>1. HeaderEnd(all) \in Nat
          BY <1>6, HeaderEndType
        <4>2. HeaderEnd(all) # 0 /\ ~(HeaderEnd(all) > HeadLimit)
          BY <2>11 DEF ReadVerdict
        <4> QED BY <4>1, <4>2, HttpAssumption
      <3>2. /\ rest \in Seq(Unit)
            /\ Len(rest) <= Len(all)
            /\ Len(rest) # 0 => Len(rest) = Len(all) - End(all)
        BY <1>3, <1>4, <3>1, ResetLen
      <3>3. Len(rest) \in Nat
        BY <3>2
      <3>4. CASE HeaderEnd(p) = 0
        <4>1. HeaderEnd(all) > Len(p)
          BY <2>5, <2>6, <2>7, <3>1, <3>4, HeaderEndStays
        <4>2. HeaderEnd(all) \in Nat /\ Len(p) \in Nat
          BY <1>6, <2>6, HeaderEndType
        <4>3. Len(p) < HeadLimit
          BY <3>1, <4>1, <4>2, HttpAssumption
        <4> HIDE DEF rest
        <4>4. Len(rest) < HeadLimit + RecvMax
          BY <1>6, <2>9, <3>2, <3>3, <4>2, <4>3, HttpAssumption
        <4> QED BY <4>4 DEF Small, rest
      <3>5. CASE HeaderEnd(p) # 0
        <4>1. End(all) = End(p)
          BY <2>5, <2>6, <2>7, <3>5, HeaderEndStays
        <4>2. ~(Len(p) >= End(p))
          BY <2>8, <3>5 DEF ShortOfRequest, HasCompleteRequest, End
        <4>3. End(p) \in Nat /\ Len(p) \in Nat
          BY <2>6, <3>5, EndType
        <4> HIDE DEF rest
        <4>4. Len(rest) < HeadLimit + RecvMax
          BY <1>6, <2>9, <3>2, <3>3, <4>1, <4>2, <4>3, HttpAssumption
        <4> QED BY <4>4 DEF Small, rest
      <3> QED BY <3>4, <3>5
    <2> QED BY <1>2, <1>3, <1>4, <1>9, <2>10, <2>11
  <1> QED BY <1>2, <1>7, <1>8, <1>9

(* The reset looks at the buffer alone. *)
LEMMA SameReset ==
  ASSUME NEW c \in Conn, NEW d \in Conn, c.rbuf = d.rbuf
  PROVE  ResetForNextRequest(c).rbuf = ResetForNextRequest(d).rbuf
  BY DEF ResetForNextRequest, Conn

(* process() leaves the buffer alone and always builds a response. *)
LEMMA ProcessAnswers ==
  ASSUME NEW c \in Conn
  PROVE  LET d == Process(c) IN d \in Conn /\ d.rbuf = c.rbuf /\ d.wbuf.status # ""
  <1>1. ProcessStatus(c.rbuf) \in Status
    BY StatusType DEF Conn
  <1>2. Process(c).rbuf = c.rbuf /\ Process(c).wbuf.status = ProcessStatus(c.rbuf)
    BY DEF Process, Conn
  <1> QED BY <1>1, <1>2, ConnProcess DEF Status

-----------------------------------------------------------------------------
(* The inductive invariant. *)

LEMMA InitInv ==
  ASSUME SessionAssumption, Init
  PROVE  SessionInv
  <1>1. PICK s \in Sock : conn = InitConn(NewConn, s)
    BY DEF Init
  <1>2. conn \in Conn /\ conn.rbuf = <<>>
    BY <1>1, NewConnType, ConnInit DEF InitConn
  <1>3. TypeOK
    <2>1. /\ pos \in [req : Nat \ {0}, unit : Nat \ {0}]
          /\ inbox \in Seq(Unit) /\ answers \in Seq(Answer)
      BY DEF Init
    <2> QED BY <1>2, <2>1 DEF Init, TypeOK
  <1>4. SendsScript
    <2> SUFFICES ASSUME 1 <= Len(script) PROVE 1 <= Len(Wire(script[1]))
      BY DEF Init, SendsScript
    <2>1. script \in Seq(Req)
      BY <1>3, SessionAssumption DEF TypeOK
    <2>2. script[1] \in Req
      BY <2>1
    <2>3. Len(Wire(script[1])) \in Nat \ {0}
      BY <2>2, WireType
    <2> QED BY <2>3
  <1>5. HeaderEnd(conn.rbuf) = 0
    <2>1. conn.rbuf \in Seq(Unit) /\ 0..Len(conn.rbuf) = {0}
      BY <1>2 DEF Conn
    <2> QED BY <2>1, HeaderEndType
  <1>6. Len(conn.rbuf) = 0
    BY <1>2
  <1>7. BufferBounded
    BY <1>6, HttpAssumption DEF BufferBounded
  <1>8. RoomLeft
    <2>1. ShortOfRequest(conn.rbuf)
      BY <1>5, <1>6, HttpAssumption, SessionAssumption DEF ShortOfRequest, HasCompleteRequest
    <2> QED BY <2>1 DEF RoomLeft, Init
  <1>9. HasResponse
    BY DEF HasResponse, Init
  <1> QED BY <1>3, <1>4, <1>7, <1>8, <1>9 DEF SessionInv

(* The client touches neither the connection nor its registration. *)
LEMMA ClientInv ==
  ASSUME SessionAssumption, SessionInv, ClientStep
  PROVE  SessionInv'
  <1> USE DEF SessionInv
  <1>1. UNCHANGED <<script, conn, reg, answers, derailed>>
    BY DEF ClientStep, Send, Fin
  <1>2. BufferBounded' /\ RoomLeft' /\ HasResponse'
    BY <1>1 DEF BufferBounded, RoomLeft, HasResponse
  <1>3. CASE Fin
    BY <1>1, <1>2, <1>3 DEF Fin, TypeOK, SendsScript
  <1>4. CASE Send
    <2> DEFINE units == Wire(script[pos.req])
    <2>1. script \in Seq(Req) /\ pos \in [req : Nat \ {0}, unit : Nat \ {0}]
      BY SessionAssumption DEF TypeOK
    <2>2. pos.req \in 1..Len(script)
      BY <1>4, <2>1 DEF Send
    <2>3. script[pos.req] \in Req
      BY <2>1, <2>2
    <2>4. units \in Seq(Unit) /\ Len(units) \in Nat \ {0}
      BY <2>3, WireType
    <2>5. pos.unit \in 1..Len(units)
      BY <2>1, <2>2, <2>4 DEF SendsScript
    <2>6. inbox' = Append(inbox, units[pos.unit])
      BY <1>4 DEF Send
    <2>7. pos' = IF pos.unit < Len(units) THEN [pos EXCEPT !.unit = @ + 1]
                 ELSE [req |-> pos.req + 1, unit |-> 1]
      BY <1>4 DEF Send
    <2>8. pos' \in [req : Nat \ {0}, unit : Nat \ {0}]
      <3> HIDE DEF units
      <3> QED BY <2>1, <2>7
    <2>9. inbox' \in Seq(Unit)
      <3> HIDE DEF units
      <3>1. units[pos.unit] \in Unit
        BY <2>4, <2>5
      <3> QED BY <2>6, <3>1 DEF TypeOK
    <2>10. TypeOK'
      BY <1>1, <1>4, <2>8, <2>9 DEF TypeOK, Send
    <2>11. SendsScript'
      <3>1. CASE pos.unit < Len(units)
        <4>1. pos'.req = pos.req /\ pos'.unit = pos.unit + 1
          BY <2>1, <2>7, <3>1
        <4>2. pos.unit + 1 <= Len(units)
          BY <2>4, <2>5, <3>1
        <4> QED BY <1>1, <4>1, <4>2 DEF SendsScript
      <3>2. CASE ~(pos.unit < Len(units))
        <4>1. pos' = [req |-> pos.req + 1, unit |-> 1]
          BY <2>7, <3>2
        <4> SUFFICES ASSUME pos.req + 1 <= Len(script)
                     PROVE  1 <= Len(Wire(script[pos.req + 1]))
          BY <1>1, <4>1 DEF SendsScript
        <4>2. script[pos.req + 1] \in Req
          BY <2>1, <2>2
        <4>3. Len(Wire(script[pos.req + 1])) \in Nat \ {0}
          BY <4>2, WireType
        <4> QED BY <4>3
      <3> QED BY <3>1, <3>2
    <2> QED BY <1>2, <2>10, <2>11
  <1> QED BY <1>3, <1>4 DEF ClientStep

(* What the server's actions keep of the type invariant. *)
LEMMA ServerTypes ==
  ASSUME TypeOK, SendsScript, UNCHANGED client,
         conn' \in Conn, reg' \in {"in", "out", "pipe", "closed"},
         inbox' \in Seq(Unit), answers' \in Seq(Answer), derailed' \in BOOLEAN
  PROVE  TypeOK' /\ SendsScript'
  BY DEF TypeOK, SendsScript, client

LEMMA ReadInv ==
  ASSUME SessionAssumption, SessionInv, HandleRead
  PROVE  SessionInv'
  <1> USE DEF SessionInv
  <1>1. conn \in Conn /\ inbox \in Seq(Unit) /\ answers \in Seq(Answer) /\ derailed \in BOOLEAN
    BY DEF TypeOK
  <1>2. ShortOfRequest(conn.rbuf) /\ reg = "in"
    BY DEF HandleRead, RoomLeft
  <1>3. PICK n \in ReadTakes(conn.rbuf, inbox) :
          /\ AfterReadOnce(AfterRead(conn, inbox, n),
                           ReadState(conn.rbuf, inbox, n, peer = "fin"))
          /\ inbox' = SubSeq(inbox, n + 1, Len(inbox))
    BY DEF HandleRead
  <1> DEFINE d == AfterRead(conn, inbox, n)
             v == ReadVerdict(d.rbuf)
             st == ReadState(conn.rbuf, inbox, n, peer = "fin")
  <1>4. /\ n \in 0..Len(inbox)
        /\ d \in Conn
        /\ d.rbuf = conn.rbuf \o SubSeq(inbox, 1, n)
        /\ Len(d.rbuf) < HeadLimit + BodyLimit + RecvMax
        /\ n = 0 \/ v = "more" => ShortOfRequest(d.rbuf)
        /\ n > 0 /\ v = "READY" => Small(ResetForNextRequest(d).rbuf)
    BY <1>1, <1>2, ReadBounds
  <1>5. st = IF n > 0 /\ v # "more" THEN v ELSE IF peer = "fin" THEN "CLOSED" ELSE "AGAIN"
    BY <1>4 DEF ReadState
  <1>6. v \in {"more", "READY", "HEAD_TOO_LARGE", "BODY_TOO_LARGE"}
    BY DEF ReadVerdict
  <1>7. inbox' \in Seq(Unit)
    BY <1>1, <1>3, <1>4, SubSeqProperties
  <1>8. UNCHANGED <<client, answers, derailed>>
    BY DEF HandleRead
  <1>9. AfterReadOnce(d, st)
    BY <1>3
  <1> HIDE DEF d, v, st
  <1>10. CASE st = "CLOSED"
    <2>1. conn' = d /\ reg' = "closed"
      BY <1>9, <1>10 DEF AfterReadOnce
    <2>2. TypeOK' /\ SendsScript'
      BY <1>1, <1>4, <1>7, <1>8, <2>1, ServerTypes
    <2> QED BY <1>4, <2>1, <2>2 DEF BufferBounded, RoomLeft, HasResponse
  <1>11. CASE st = "AGAIN"
    <2>1. conn' = d /\ reg' = "in"
      BY <1>2, <1>9, <1>11 DEF AfterReadOnce
    <2>2. TypeOK' /\ SendsScript'
      BY <1>1, <1>4, <1>7, <1>8, <2>1, ServerTypes
    <2>3. ShortOfRequest(d.rbuf)
      BY <1>4, <1>5, <1>6, <1>11
    <2> QED BY <1>4, <2>1, <2>2, <2>3 DEF BufferBounded, RoomLeft, HasResponse
  <1>12. CASE st \in {"HEAD_TOO_LARGE", "BODY_TOO_LARGE"}
    <2>1. PICK status \in Status : conn' = Refuse(d, status) /\ reg' = "out"
      BY <1>9, <1>12 DEF AfterReadOnce, Status
    <2>2. conn' \in Conn /\ conn'.rbuf = d.rbuf /\ conn'.ka = FALSE /\ conn'.wbuf.status # ""
      BY <1>4, <2>1, ConnRefuse DEF Refuse, Conn, Status
    <2>3. TypeOK' /\ SendsScript'
      BY <1>1, <1>7, <1>8, <2>1, <2>2, ServerTypes
    <2> QED BY <1>4, <2>1, <2>2, <2>3 DEF BufferBounded, RoomLeft, HasResponse
  <1>13. CASE st = "READY"
    <2>1. conn' = Process(d) /\ reg' = "out"
      BY <1>9, <1>13 DEF AfterReadOnce
    <2>2. conn' \in Conn /\ conn'.rbuf = d.rbuf /\ conn'.wbuf.status # ""
      BY <1>4, <2>1, ProcessAnswers
    <2>3. TypeOK' /\ SendsScript'
      BY <1>1, <1>7, <1>8, <2>1, <2>2, ServerTypes
    <2>4. n > 0 /\ v = "READY"
      BY <1>5, <1>13
    <2>5. Small(ResetForNextRequest(conn').rbuf)
      <3>1. ResetForNextRequest(conn').rbuf = ResetForNextRequest(d).rbuf
        BY <1>4, <2>2, SameReset
      <3> QED BY <1>4, <2>4, <3>1
    <2> QED BY <1>4, <2>1, <2>2, <2>3, <2>5 DEF BufferBounded, RoomLeft, HasResponse
  <1> QED BY <1>5, <1>6, <1>10, <1>11, <1>12, <1>13

LEMMA WriteInv ==
  ASSUME SessionAssumption, SessionInv, HandleWrite
  PROVE  SessionInv'
  <1> USE DEF SessionInv
  <1>1. conn \in Conn /\ inbox \in Seq(Unit) /\ answers \in Seq(Answer) /\ derailed \in BOOLEAN
    BY DEF TypeOK
  <1>2. UNCHANGED <<client, inbox>> /\ reg = "out"
    BY DEF HandleWrite
  <1>3. answers' \in Seq(Answer)
    <2>1. conn.wbuf \in Response /\ conn.ka \in BOOLEAN
      BY <1>1 DEF Conn
    <2>2. conn.wbuf.req \in Req \cup {NoReq} /\ conn.wbuf.status \in Status
      BY <1>2, <2>1 DEF Response, HasResponse
    <2>3. [req |-> conn.wbuf.req, status |-> conn.wbuf.status, ka |-> conn.ka] \in Answer
      BY <2>1, <2>2 DEF Answer
    <2> QED BY <1>1, <2>3 DEF HandleWrite
  <1>4. CASE ~conn.ka
    <2>1. reg' = "closed" /\ UNCHANGED <<conn, derailed>>
      BY <1>4 DEF HandleWrite
    <2>2. TypeOK' /\ SendsScript'
      BY <1>1, <1>2, <1>3, <2>1, ServerTypes
    <2> QED BY <2>1, <2>2 DEF BufferBounded, RoomLeft, HasResponse
  <1>5. CASE conn.ka
    <2>1. /\ conn' = ResetForNextRequest(conn)
          /\ reg' = IF HasCompleteRequest(conn'.rbuf) THEN "pipe" ELSE "in"
          /\ derailed' = (derailed \/ Derails(conn.rbuf))
      BY <1>5 DEF HandleWrite
    <2>2. conn' \in Conn
      BY <1>1, <2>1, ConnReset
    <2>3. Small(conn'.rbuf)
      BY <1>2, <1>5, <2>1 DEF RoomLeft
    <2>4. Len(conn'.rbuf) \in Nat
      BY <2>2 DEF Conn
    <2>5. Len(conn'.rbuf) < HeadLimit + BodyLimit /\ Len(conn'.rbuf) < HeadLimit + BodyLimit + RecvMax
      BY <2>3, <2>4, HttpAssumption, SessionAssumption DEF Small
    <2>6. derailed' \in BOOLEAN
      BY <1>1, <2>1 DEF Derails
    <2>7. TypeOK' /\ SendsScript'
      BY <1>1, <1>2, <1>3, <2>1, <2>2, <2>6, ServerTypes
    <2>8. RoomLeft' /\ HasResponse'
      BY <2>1, <2>3, <2>5 DEF RoomLeft, ShortOfRequest, HasResponse
    <2> QED BY <2>5, <2>7, <2>8 DEF BufferBounded
  <1> QED BY <1>4, <1>5

LEMMA PipeInv ==
  ASSUME SessionAssumption, SessionInv, RunPipe
  PROVE  SessionInv'
  <1> USE DEF SessionInv
  <1>1. conn \in Conn /\ inbox \in Seq(Unit) /\ answers \in Seq(Answer) /\ derailed \in BOOLEAN
    BY DEF TypeOK
  <1>2. UNCHANGED <<client, inbox, answers, derailed>> /\ reg' = "out" /\ conn' = Process(conn)
    BY DEF RunPipe
  <1>3. conn' \in Conn /\ conn'.rbuf = conn.rbuf /\ conn'.wbuf.status # ""
    BY <1>1, <1>2, ProcessAnswers
  <1>4. TypeOK' /\ SendsScript'
    BY <1>1, <1>2, <1>3, ServerTypes
  <1>5. Small(ResetForNextRequest(conn').rbuf)
    <2>1. Len(ResetForNextRequest(conn').rbuf) <= Len(conn.rbuf) /\
          ResetForNextRequest(conn').rbuf \in Seq(Unit)
      BY <1>3, ResetLen
    <2>2. Len(conn.rbuf) \in Nat /\ Small(conn.rbuf)
      BY <1>1 DEF Conn, RunPipe, RoomLeft
    <2>3. Len(ResetForNextRequest(conn').rbuf) \in Nat
      BY <2>1
    <2> QED BY <2>1, <2>2, <2>3, HttpAssumption DEF Small
  <1> QED BY <1>2, <1>3, <1>4, <1>5 DEF BufferBounded, RoomLeft, HasResponse

LEMMA StepInv ==
  ASSUME SessionAssumption, SessionInv, [Next]_vars
  PROVE  SessionInv'
  <1>1. CASE ClientStep
    BY <1>1, ClientInv
  <1>2. CASE HandleHup
    <2>1. reg' = "closed" /\ UNCHANGED <<client, conn, inbox, answers, derailed>>
      BY <1>2 DEF HandleHup
    <2>2. TypeOK' /\ SendsScript'
      BY <2>1, ServerTypes DEF SessionInv, TypeOK
    <2> QED BY <2>1, <2>2 DEF SessionInv, BufferBounded, RoomLeft, HasResponse
  <1>3. CASE HandleRead
    BY <1>3, ReadInv
  <1>4. CASE HandleWrite
    BY <1>4, WriteInv
  <1>5. CASE RunPipe
    BY <1>5, PipeInv
  <1>6. CASE UNCHANGED vars
    BY <1>6 DEF SessionInv, TypeOK, SendsScript, HasResponse, BufferBounded, RoomLeft, vars, client
  <1> QED BY <1>1, <1>2, <1>3, <1>4, <1>5, <1>6 DEF Next, ServerStep

THEOREM SessionInvariant ==
  Spec => []SessionInv
  <1>1. Init => SessionInv
    BY InitInv, SessionAssumption
  <1>2. SessionInv /\ [Next]_vars => SessionInv'
    BY StepInv, SessionAssumption
  <1> QED BY <1>1, <1>2, PTL DEF Spec

-----------------------------------------------------------------------------
(* The limits. *)

(* A page answers the request whose header is in front of the buffer.      *)
LEMMA PageFront ==
  ASSUME NEW buf \in Seq(Unit), ProcessStatus(buf) = "page"
  PROVE  LET r == FrontReq(buf) IN
         /\ HeaderEnd(buf) \in 1..Len(buf)
         /\ r \in Req
         /\ r = buf[HeaderEnd(buf)].req
         /\ ParseRequest(buf) = Request[r]
         /\ Request[r].cl \in Nat
  <1> DEFINE h == HeaderEnd(buf)
  <1>1. ParseRequest(buf).method # ""
    BY DEF ProcessStatus, Validate
  <1>2. h # 0 /\ WholeHeader(buf, h) /\ ParseRequest(buf) = Request[buf[h].req]
    BY <1>1 DEF ParseRequest, EmptyRequest
  <1>3. h \in 1..Len(buf)
    BY <1>2, HeaderEndType
  <1>4. 1 \in 1..h
    BY <1>3
  <1>5. buf[1].req = buf[h].req
    BY <1>2, <1>4 DEF WholeHeader
  <1>6. buf # <<>>
    BY <1>3
  <1>7. FrontReq(buf) = buf[h].req
    BY <1>5, <1>6 DEF FrontReq
  <1>8. buf[h].req \in Req /\ Request[buf[h].req].cl \in Nat
    BY <1>2, EndType DEF ExtractContentLength
  <1> QED BY <1>2, <1>3, <1>7, <1>8

(* read_once() says READY within the limits only. *)
LEMMA ReadyInLimits ==
  ASSUME NEW buf \in Seq(Unit), ReadVerdict(buf) = "READY", ProcessStatus(buf) = "page"
  PROVE  Request[FrontReq(buf)].cl <= BodyLimit
  <1>1. HeaderEnd(buf) # 0 /\ ParseRequest(buf) = Request[FrontReq(buf)]
    BY PageFront
  <1>2. ~(Request[FrontReq(buf)].cl > BodyLimit)
    BY <1>1 DEF ReadVerdict
  <1> QED BY <1>2, PageFront, HttpAssumption

(* Without a test of the limits a whole request in a small buffer is in    *)
(* them all the same, unless its end wraps around.                         *)
LEMMA SmallInLimits ==
  ASSUME SessionAssumption,
         NEW buf \in Seq(Unit), Small(buf), HasCompleteRequest(buf), ProcessStatus(buf) = "page"
  PROVE  Request[FrontReq(buf)].cl <= BodyLimit \/ Wraps(FrontReq(buf))
  <1> DEFINE h == HeaderEnd(buf)
             r == FrontReq(buf)
             n == Request[r].cl
  <1>1. h \in 1..Len(buf) /\ r \in Req /\ r = buf[h].req /\ n \in Nat
    BY PageFront
  <1>2. h = Request[r].parts + 1
    <2>1. ParseRequest(buf).method # ""
      BY DEF ProcessStatus, Validate
    <2> QED BY <1>1, <2>1 DEF ParseRequest, EmptyRequest, WholeHeader
  <1>3. Len(buf) >= (h + n) % SizeMod
    BY <1>1 DEF HasCompleteRequest, RequestEnd, ExtractContentLength
  <1>4. Len(buf) \in Nat /\ h \in Nat /\ h >= 1 /\ h + n \in Nat
    BY <1>1
  <1> SUFFICES ASSUME ~Wraps(r) PROVE n <= BodyLimit
    OBVIOUS
  <1>5. h + n < SizeMod
    <2>1. ~(Request[r].parts + 1 + n >= SizeMod)
      BY DEF Wraps
    <2> HIDE DEF h, r, n
    <2> QED BY <1>2, <1>4, <2>1, HttpAssumption
  <1>6. (h + n) % SizeMod = h + n
    <2>1. ASSUME NEW a \in Nat, NEW m \in Nat \ {0}, a < m PROVE a % m = a
      BY <2>1
    <2> HIDE DEF h, n
    <2> QED BY <1>4, <1>5, <2>1, HttpAssumption
  <1>7. h + n < HeadLimit + RecvMax
    <2> HIDE DEF h, n
    <2> QED BY <1>3, <1>4, <1>6, HttpAssumption DEF Small
  <1> HIDE DEF h, n
  <1> QED BY <1>1, <1>4, <1>7, HttpAssumption, SessionAssumption

(* process() answers in the limits if it has read the request, or if it    *)
(* found it in the buffer.                                                 *)
LEMMA ProcessInLimits ==
  ASSUME SessionAssumption, NEW c \in Conn, NEW k \in Nat,
         \/ ReadVerdict(c.rbuf) = "READY"
         \/ k > 1 /\ Small(c.rbuf) /\ HasCompleteRequest(c.rbuf)
  PROVE  InLimits(k, Process(c).wbuf.req, Process(c).wbuf.status)
  <1>1. c.rbuf \in Seq(Unit)
    BY DEF Conn
  <1>2. Process(c).wbuf.req = FrontReq(c.rbuf) /\ Process(c).wbuf.status = ProcessStatus(c.rbuf)
    BY DEF Process, Conn
  <1> QED BY <1>1, <1>2, ReadyInLimits, SmallInLimits DEF InLimits

LEMMA LimitsStep ==
  ASSUME SessionAssumption, SessionInv, LimitsInv, [Next]_vars
  PROVE  LimitsInv'
  <1>1. conn \in Conn /\ conn.rbuf \in Seq(Unit) /\ inbox \in Seq(Unit) /\ answers \in Seq(Answer)
    BY DEF SessionInv, TypeOK, Conn
  <1>2. Len(answers) \in Nat
    BY <1>1
  <1>3. CASE UNCHANGED <<conn, answers>> /\ reg' \in {reg, "closed"}
    BY <1>3 DEF LimitsInv, PipeIsWhole, NextInLimits, InLimits, LimitsHold
  <1>4. CASE HandleRead
    <2>1. PICK n \in ReadTakes(conn.rbuf, inbox) :
            AfterReadOnce(AfterRead(conn, inbox, n),
                          ReadState(conn.rbuf, inbox, n, peer = "fin"))
      BY <1>4 DEF HandleRead
    <2> DEFINE d == AfterRead(conn, inbox, n)
               st == ReadState(conn.rbuf, inbox, n, peer = "fin")
    <2>2. ShortOfRequest(conn.rbuf)
      BY <1>4 DEF HandleRead, SessionInv, RoomLeft
    <2>3. d \in Conn /\ d.rbuf = conn.rbuf \o SubSeq(inbox, 1, n)
      BY <1>1, <2>2, ReadBounds
    <2>4. answers' = answers /\ reg = "in"
      BY <1>4 DEF HandleRead
    <2>5. LimitsHold'
      BY <2>4 DEF LimitsInv, LimitsHold
    <2>6. AfterReadOnce(d, st)
      BY <2>1
    <2>7. st = "READY" => ReadVerdict(d.rbuf) = "READY"
      BY <2>3 DEF ReadState
    <2> HIDE DEF d, st
    <2>8. CASE st \in {"CLOSED", "AGAIN"}
      BY <2>4, <2>5, <2>6, <2>8 DEF AfterReadOnce, LimitsInv, PipeIsWhole, NextInLimits
    <2>9. CASE st \in {"HEAD_TOO_LARGE", "BODY_TOO_LARGE"}
      <3>1. PICK status \in {"413", "431"} : conn' = Refuse(d, status) /\ reg' = "out"
        BY <2>6, <2>9 DEF AfterReadOnce
      <3>2. conn'.wbuf.status = status
        BY <2>3, <3>1 DEF Refuse, Conn
      <3> QED BY <2>5, <3>1, <3>2 DEF LimitsInv, PipeIsWhole, NextInLimits, InLimits
    <2>10. CASE st = "READY"
      <3>1. conn' = Process(d) /\ reg' = "out"
        BY <2>6, <2>10 DEF AfterReadOnce
      <3>2. InLimits(Len(answers) + 1, conn'.wbuf.req, conn'.wbuf.status)
        <4>1. Len(answers) + 1 \in Nat /\ d \in Conn
          BY <1>2, <2>3
        <4>2. ReadVerdict(d.rbuf) = "READY"
          BY <2>7, <2>10
        <4>3. InLimits(Len(answers) + 1, Process(d).wbuf.req, Process(d).wbuf.status)
          BY <4>1, <4>2, ProcessInLimits
        <4> QED BY <3>1, <4>3
      <3> QED BY <2>4, <2>5, <3>1, <3>2 DEF LimitsInv, PipeIsWhole, NextInLimits, InLimits
    <2> QED BY <2>6, <2>8, <2>9, <2>10 DEF AfterReadOnce
  <1>5. CASE HandleWrite
    <2> DEFINE a == [req |-> conn.wbuf.req, status |-> conn.wbuf.status, ka |-> conn.ka]
    <2>1. answers' = Append(answers, a) /\ reg = "out"
      BY <1>5 DEF HandleWrite
    <2>2. reg' = "closed" \/ reg' = IF HasCompleteRequest(conn'.rbuf) THEN "pipe" ELSE "in"
      BY <1>5 DEF HandleWrite
    <2>3. /\ Len(answers') = Len(answers) + 1
          /\ answers'[Len(answers) + 1] = a
          /\ \A k \in 1..Len(answers) : answers'[k] = answers[k]
      <3> HIDE DEF a
      <3> QED BY <1>1, <2>1
    <2>4. answers' # <<>>
      BY <1>2, <2>3
    <2>5. LimitsHold'
      <3> SUFFICES ASSUME NEW k \in DOMAIN answers'
                   PROVE  InLimits(k, answers'[k].req, answers'[k].status)
        BY DEF LimitsHold, InLimits, Wraps
      <3>1. k \in 1..(Len(answers) + 1)
        BY <1>1, <2>1, <2>3
      <3>2. CASE k = Len(answers) + 1
        BY <2>1, <2>3, <3>2 DEF LimitsInv, NextInLimits
      <3>3. CASE k \in 1..Len(answers)
        <4>1. k \in DOMAIN answers
          BY <1>1, <3>3
        <4> QED BY <2>3, <3>3, <4>1 DEF LimitsInv, LimitsHold, InLimits
      <3> QED BY <1>2, <3>1, <3>2, <3>3
    <2> QED BY <2>2, <2>4, <2>5 DEF LimitsInv, PipeIsWhole, NextInLimits
  <1>6. CASE RunPipe
    <2>1. conn' = Process(conn) /\ reg' = "out" /\ answers' = answers /\ reg = "pipe"
      BY <1>6 DEF RunPipe
    <2>2. Small(conn.rbuf) /\ HasCompleteRequest(conn.rbuf) /\ answers # <<>>
      BY <2>1 DEF SessionInv, RoomLeft, LimitsInv, PipeIsWhole
    <2>3. Len(answers) + 1 > 1
      BY <1>1, <2>2
    <2>4. InLimits(Len(answers) + 1, conn'.wbuf.req, conn'.wbuf.status)
      BY <1>1, <1>2, <2>1, <2>2, <2>3, ProcessInLimits
    <2> QED BY <2>1, <2>4 DEF LimitsInv, PipeIsWhole, NextInLimits, LimitsHold, InLimits
  <1> QED BY <1>3, <1>4, <1>5, <1>6
          DEF Next, ClientStep, ServerStep, Send, Fin, HandleHup, vars

THEOREM LimitsInvariant ==
  Spec => []LimitsInv
  <1>1. Init => LimitsInv
    BY DEF Init, LimitsInv, PipeIsWhole, NextInLimits, LimitsHold
  <1>2. SessionInv /\ LimitsInv /\ [Next]_vars => LimitsInv'
    BY LimitsStep, SessionAssumption
  <1> QED BY <1>1, <1>2, SessionInvariant, PTL DEF Spec

-----------------------------------------------------------------------------
(* The theorems. *)

(* One connection's variables keep their types. *)
THEOREM SessionTypeCorrect ==
  Spec => []TypeOK
  <1>1. SessionInv => TypeOK
    BY DEF SessionInv
  <1> QED BY <1>1, SessionInvariant, PTL

(* read_buf_ never holds more than both limits and one recv(), whatever    *)
(* the client sends and in whatever segments, lengths that wrap included.  *)
THEOREM SessionBufferBounded ==
  Spec => []BufferBounded
  <1>1. SessionInv => BufferBounded
    BY DEF SessionInv
  <1> QED BY <1>1, SessionInvariant, PTL

(* A body over BODYLIMIT is never processed, although requests found in    *)
(* the buffer pass no test, but for one whose end wraps around.            *)
THEOREM SessionLimitsHold ==
  Spec => []LimitsHold
  <1>1. LimitsInv => LimitsHold
    BY DEF LimitsInv
  <1> QED BY <1>1, LimitsInvariant, PTL

(* The connection is closed on the client's FIN or behind a response that  *)
(* announced it.                                                           *)
THEOREM SessionCloseIsAnnounced ==
  Spec => CloseIsAnnounced
  <1> DEFINE Closes == reg # "closed" /\ reg' = "closed"
             Announced == peer = "fin" \/ (answers' # answers /\ ~Last(answers').ka)
  <1>1. ASSUME SessionInv, [Next]_vars, Closes
        PROVE  Announced
    <2>1. CASE ClientStep
      BY <1>1, <2>1 DEF ClientStep, Send, Fin
    <2>2. CASE HandleHup
      BY <2>2 DEF HandleHup
    <2>3. CASE HandleRead
      <3>1. PICK n \in ReadTakes(conn.rbuf, inbox) :
              AfterReadOnce(AfterRead(conn, inbox, n),
                            ReadState(conn.rbuf, inbox, n, peer = "fin"))
        BY <2>3 DEF HandleRead
      <3> DEFINE c == AfterRead(conn, inbox, n)
                 st == ReadState(conn.rbuf, inbox, n, peer = "fin")
      <3>2. st = "CLOSED"
        <4> HIDE DEF c, st
        <4> QED BY <1>1, <3>1 DEF AfterReadOnce, c, st
      <3>3. peer = "fin"
        BY <3>2 DEF ReadState, ReadVerdict
      <3> QED BY <3>3
    <2>4. CASE HandleWrite
      <3> DEFINE a == [req |-> conn.wbuf.req, status |-> conn.wbuf.status, ka |-> conn.ka]
      <3>1. answers \in Seq(Answer) /\ answers' = Append(answers, a)
        BY <1>1, <2>4 DEF SessionInv, TypeOK, HandleWrite
      <3>2. ~conn.ka
        BY <1>1, <2>4 DEF HandleWrite
      <3>3. Len(answers') = Len(answers) + 1 /\ answers'[Len(answers')] = a
        <4> HIDE DEF a
        <4> QED BY <3>1
      <3>4. answers' # answers
        BY <3>1, <3>3
      <3> QED BY <3>2, <3>3, <3>4 DEF Last
    <2>5. CASE RunPipe
      BY <1>1, <2>5 DEF RunPipe
    <2>6. CASE UNCHANGED vars
      BY <1>1, <2>6 DEF vars
    <2> QED BY <1>1, <2>1, <2>2, <2>3, <2>4, <2>5, <2>6 DEF Next, ServerStep
  <1>2. SessionInv /\ [Next]_vars => [Closes => Announced]_vars
    BY <1>1
  <1> QED BY <1>2, SessionInvariant, PTL DEF Spec, CloseIsAnnounced

-----------------------------------------------------------------------------
(* What the client puts on the wire. *)

LEMMA WireFromNone ==
  ASSUME NEW k \in Nat, script \in Seq(Req), k >= Len(script)
  PROVE  WireFrom(k) = <<>>
  <1>1. 1..(Len(script) - k) = {}
    OBVIOUS
  <1>2. [i \in 1..(Len(script) - k) |-> Wire(script[k + i])] = <<>>
    BY <1>1
  <1> QED BY <1>2 DEF WireFrom, FlattenSeq

(* The next request, and what follows it. *)
LEMMA WireFromNext ==
  ASSUME NEW k \in Nat, script \in Seq(Req), k < Len(script)
  PROVE  /\ WireFrom(k + 1) \in Seq(Unit)
         /\ WireFrom(k) = Wire(script[k + 1]) \o WireFrom(k + 1)
  <1> DEFINE len == Len(script)
             n == len - k
             m == len - (k + 1)
             s == [i \in 1..n |-> Wire(script[k + i])]
             t == [i \in 1..m |-> Wire(script[(k + 1) + i])]
  <1>0. len \in Nat /\ k < len /\ \A i \in 1..len : script[i] \in Req
    OBVIOUS
  <1> HIDE DEF len
  <1>1. n \in Nat \ {0} /\ m \in Nat /\ n = m + 1
    BY <1>0
  <1>2. ASSUME NEW i \in 1..n PROVE Wire(script[k + i]) \in Seq(Unit)
    <2>1. k + i \in 1..len
      BY <1>0
    <2>2. script[k + i] \in Req
      BY <1>0, <2>1
    <2> QED BY <2>2, WireType
  <1>3. ASSUME NEW i \in 1..m PROVE i + 1 \in 1..n /\ (k + 1) + i = k + (i + 1)
    BY <1>0
  <1>4. ASSUME NEW i \in 1..m PROVE Wire(script[(k + 1) + i]) \in Seq(Unit)
    BY <1>2, <1>3
  <1> HIDE DEF n, m
  <1>5. s \in Seq(Seq(Unit)) /\ Len(s) = n
    BY <1>1, <1>2
  <1>6. t \in Seq(Seq(Unit)) /\ Len(t) = m
    BY <1>1, <1>4
  <1>7. \A i \in 1..m : t[i] = s[i + 1]
    BY <1>3
  <1>8. s[1] = Wire(script[k + 1])
    BY <1>1
  <1>9. WireFrom(k) = FlattenSeq(s) /\ WireFrom(k + 1) = FlattenSeq(t)
    BY DEF WireFrom, n, m, len
  <1> HIDE DEF s, t
  <1>10. FlattenSeq(t) \in Seq(Unit) /\ FlattenSeq(s) = s[1] \o FlattenSeq(t)
    BY <1>1, <1>5, <1>6, <1>7, FlattenFront DEF Behind
  <1> QED BY <1>8, <1>9, <1>10

(* The stream behind any request is units.                                 *)
LEMMA WireFromType ==
  ASSUME NEW k \in Nat, script \in Seq(Req)
  PROVE  WireFrom(k) \in Seq(Unit)
  <1>1. CASE k >= Len(script)
    <2>1. WireFrom(k) = <<>>
      BY <1>1, WireFromNone
    <2> QED BY <2>1
  <1>2. CASE k < Len(script)
    <2>1. Wire(script[k + 1]) \in Seq(Unit)
      <3>1. script[k + 1] \in Req
        BY <1>2
      <3> QED BY <3>1, WireType
    <2>2. /\ WireFrom(k + 1) \in Seq(Unit)
          /\ WireFrom(k) = Wire(script[k + 1]) \o WireFrom(k + 1)
      BY <1>2, WireFromNext
    <2> QED BY <2>1, <2>2
  <1>3. Len(script) \in Nat
    OBVIOUS
  <1> QED BY <1>1, <1>2, <1>3

-----------------------------------------------------------------------------
(* The front of a buffer that holds the beginning of the stream. *)

(* Dropping as many units from the buffer as the first request has leaves  *)
(* the stream behind it.                                                   *)
LEMMA CutFront ==
  ASSUME NEW a \in Seq(Unit), NEW b \in Seq(Unit),
         NEW w \in Seq(Unit), NEW x \in Seq(Unit),
         a \o b = w \o x, Len(w) <= Len(a)
  PROVE  SubSeq(a, Len(w) + 1, Len(a)) \o b = x
  <1> DEFINE n == Len(w)
             k == Len(a)
             m == Len(b)
             cut == SubSeq(a, n + 1, k)
             all == a \o b
  <1>1. n \in Nat /\ k \in Nat /\ m \in Nat /\ Len(x) \in Nat /\ n <= k
    OBVIOUS
  <1>2. cut \in Seq(Unit) /\ Len(cut) = k - n /\ \A i \in 1..(k - n) : cut[i] = a[n + i]
    <2>1. \A i \in (n + 1)..k : a[i] \in Unit
      BY <1>1
    <2> HIDE DEF n, k
    <2>2. n + 1 \in Int /\ k \in Int
      BY <1>1
    <2>3. /\ SubSeq(a, n + 1, k) \in Seq(Unit)
          /\ Len(SubSeq(a, n + 1, k)) = IF n + 1 <= k THEN k - (n + 1) + 1 ELSE 0
          /\ \A i \in 1..(k - (n + 1) + 1) : SubSeq(a, n + 1, k)[i] = a[n + 1 + i - 1]
      BY <2>1, <2>2, SubSeqProperties, SMTT(30)
    <2>4. k - (n + 1) + 1 = k - n
      BY <1>1
    <2>5. \A i \in 1..(k - n) : n + 1 + i - 1 = n + i
      BY <1>1
    <2> HIDE DEF cut
    <2>6. Len(cut) = k - n
      BY <1>1, <2>3 DEF cut
    <2> QED BY <2>3, <2>4, <2>5, <2>6 DEF cut
  <1>3. /\ Len(all) = k + m
        /\ \A i \in 1..k : all[i] = a[i]
        /\ \A i \in 1..m : all[k + i] = b[i]
    <2>1. Len(all) = k + m /\ \A i \in 1..k : all[i] = a[i]
      OBVIOUS
    <2>2. ASSUME NEW i \in 1..m PROVE all[k + i] = b[i]
      OBVIOUS
    <2> QED BY <2>1, <2>2
  <1>4. /\ Len(all) = n + Len(x)
        /\ \A i \in 1..Len(x) : all[n + i] = x[i]
    <2>1. /\ Len(w \o x) = n + Len(x)
          /\ \A i \in 1..Len(x) : (w \o x)[n + i] = x[i]
      OBVIOUS
    <2> QED BY <2>1
  <1>5. cut \o b \in Seq(Unit) /\ Len(cut \o b) = (k - n) + m
    <2>1. cut \o b \in Seq(Unit) /\ Len(cut \o b) = Len(cut) + m
      <3> HIDE DEF cut
      <3> QED BY <1>2, ConcatProperties
    <2> QED BY <1>2, <2>1
  <1>6. Len(x) = (k - n) + m
    <2> DEFINE lx == Len(x)
    <2>1. k + m = n + lx
      BY <1>3, <1>4
    <2>2. lx \in Nat
      OBVIOUS
    <2> HIDE DEF lx, n, k, m
    <2>3. lx = (k - n) + m
      BY <1>1, <2>1, <2>2
    <2> QED BY <2>3 DEF lx
  <1>7. ASSUME NEW i \in 1..((k - n) + m) PROVE (cut \o b)[i] = x[i]
    <2>1. x[i] = all[n + i]
      BY <1>4, <1>6
    <2>2. CASE i <= k - n
      <3>1. i \in 1..(k - n) /\ n + i \in 1..k
        <4> HIDE DEF n, k, m
        <4> QED BY <1>1, <2>2
      <3>2. all[n + i] = a[n + i]
        BY <1>3, <3>1
      <3>3. (cut \o b)[i] = cut[i]
        <4> HIDE DEF cut, n, k
        <4> QED BY <1>2, <3>1
      <3> QED BY <1>2, <2>1, <3>1, <3>2, <3>3
    <2>3. CASE i > k - n
      <3> DEFINE j == i - (k - n)
      <3>1. j \in 1..m /\ k + j = n + i
        <4> HIDE DEF n, k, m
        <4> QED BY <1>1, <2>3
      <3>2. all[n + i] = b[j]
        <4> HIDE DEF n, k, m, all, j
        <4> QED BY <1>3, <3>1
      <3>3. (cut \o b)[i] = b[j]
        <4>1. i \in 1..(Len(cut) + m) /\ ~(i <= Len(cut)) /\ j = i - Len(cut)
          <5>1. Len(cut) = k - n
            BY <1>2
          <5>2. i \in 1..((k - n) + m) /\ ~(i <= k - n)
            <6> HIDE DEF n, k, m
            <6> QED BY <1>1, <2>3
          <5> QED BY <5>1, <5>2
        <4> HIDE DEF cut, n, k, j
        <4> QED BY <1>2, <4>1, ConcatProperties
      <3> QED BY <2>1, <3>2, <3>3
    <2>4. i <= k - n \/ i > k - n
      <3> HIDE DEF n, k, m
      <3> QED BY <1>1
    <2> QED BY <2>2, <2>3, <2>4
  <1>8. \A i \in 1..Len(cut \o b) : (cut \o b)[i] = x[i]
    BY <1>5, <1>7
  <1>9. Len(cut \o b) = Len(x)
    BY <1>5, <1>6
  <1> HIDE DEF cut
  <1>10. cut \o b = x
    BY <1>5, <1>8, <1>9, SeqEqual
  <1> QED BY <1>10 DEF cut

(* A buffer that begins what follows the first k requests begins the next. *)
LEMMA StreamFront ==
  ASSUME script \in Seq(Req), NEW k \in Nat,
         NEW buf \in Seq(Unit), NEW rest \in Seq(Unit),
         buf # <<>>, buf \o rest = WireFrom(k)
  PROVE  /\ k < Len(script)
         /\ script[k + 1] \in Req
         /\ WireFrom(k + 1) \in Seq(Unit)
         /\ buf \o rest = Wire(script[k + 1]) \o WireFrom(k + 1)
  <1>1. buf \o rest # <<>>
    OBVIOUS
  <1>2. Len(script) \in Nat
    OBVIOUS
  <1>3. ~(k >= Len(script))
    BY <1>1, WireFromNone
  <1>4. k < Len(script)
    BY <1>2, <1>3
  <1>5. script[k + 1] \in Req
    BY <1>4
  <1>6. /\ WireFrom(k + 1) \in Seq(Unit)
        /\ WireFrom(k) = Wire(script[k + 1]) \o WireFrom(k + 1)
    BY <1>4, WireFromNext
  <1> QED BY <1>4, <1>5, <1>6

-----------------------------------------------------------------------------
(* The response a request gets is the one it deserves.                     *)

(* An empty buffer holds no request, and a request that could not be       *)
(* parsed is refused.                                                      *)
LEMMA EmptyIsBad == ProcessStatus(<<>>) = "400" /\ Validate(EmptyRequest) = "BadRequest"
  <1>1. Validate(EmptyRequest) = "BadRequest"
    BY DEF Validate, EmptyRequest
  <1>2. HeaderEnd(<<>>) = 0
    <2>1. <<>> \in Seq(Unit) /\ Len(<<>>) = 0
      OBVIOUS
    <2>2. HeaderEnd(<<>>) \in 0..Len(<<>>)
      BY ONLY <2>1, HeaderEndType
    <2> QED BY <2>1, <2>2
  <1>3. ParseRequest(<<>>) = EmptyRequest
    BY <1>2 DEF ParseRequest
  <1> QED BY <1>1, <1>3 DEF ProcessStatus

(* The verdict of read_once(), and what process() makes of its READY. *)
LEMMA ReadDeserves ==
  ASSUME NEW buf \in Seq(Unit), NEW rest \in Seq(Unit), NEW tail \in Seq(Unit),
         NEW r \in Req, buf \o rest = Wire(r) \o tail
  PROVE  LET v == ReadVerdict(buf) IN
         /\ v = "HEAD_TOO_LARGE" => Deserves(r) = "431"
         /\ v = "BODY_TOO_LARGE" => Deserves(r) = "413"
         /\ v = "READY" => Deserves(r) = ProcessStatus(buf)
  <1> DEFINE h == HeaderEnd(buf)
             p == Request[r].parts
             n == Request[r].cl
             len == Len(buf)
             req == ParseRequest(buf)
             v == ReadVerdict(buf)
  <1>1. p \in Nat /\ n \in Nat /\ len \in Nat /\ HeadLimit \in Nat /\ BodyLimit \in Nat
    BY RequestTypes, HttpAssumption
  <1>2. h = IF len > p THEN p + 1 ELSE 0
    BY FrontOfStream
  <1>3. req = IF h # 0 /\ Request[r].wf THEN Request[r] ELSE EmptyRequest
    BY ParseOfStream
  <1>4. EmptyRequest.cl = 0
    BY DEF EmptyRequest
  <1>5. v = "HEAD_TOO_LARGE" => Deserves(r) = "431"
    <2> SUFFICES ASSUME v = "HEAD_TOO_LARGE" PROVE p + 1 > HeadLimit
      BY DEF Deserves
    <2>1. IF h = 0 THEN len > HeadLimit ELSE h > HeadLimit
      BY DEF ReadVerdict
    <2> HIDE DEF h, p, n, len, req, v
    <2> QED BY <1>1, <1>2, <2>1
  <1>6. v = "BODY_TOO_LARGE" => Deserves(r) = "413"
    <2> SUFFICES ASSUME v = "BODY_TOO_LARGE" PROVE Deserves(r) = "413"
      OBVIOUS
    <2>1. h # 0 /\ ~(h > HeadLimit) /\ req.cl > BodyLimit
      BY DEF ReadVerdict
    <2>2. Request[r].wf /\ req = Request[r]
      BY <1>1, <1>3, <1>4, <2>1
    <2>3. ~(p + 1 > HeadLimit)
      BY <1>2, <2>1
    <2> QED BY <2>1, <2>2, <2>3 DEF Deserves
  <1>7. v = "READY" => Deserves(r) = ProcessStatus(buf)
    <2> SUFFICES ASSUME v = "READY" PROVE Deserves(r) = ProcessStatus(buf)
      OBVIOUS
    <2>1. /\ h # 0 /\ ~(h > HeadLimit) /\ ~(req.cl > BodyLimit)
          /\ ~(req.method = "POST" /\ len < RequestEnd(h, req.cl))
      BY DEF ReadVerdict
    <2>2. ~(p + 1 > HeadLimit)
      BY <1>2, <2>1
    <2>3. CASE Request[r].wf
      <3>1. req = Request[r]
        BY <1>3, <2>1, <2>3
      <3> QED BY <2>1, <2>2, <2>3, <3>1 DEF Deserves, ProcessStatus, Validate
    <2>4. CASE ~Request[r].wf
      <3>1. req = EmptyRequest
        BY <1>3, <2>4
      <3> QED BY <2>2, <2>4, <3>1, EmptyIsBad DEF Deserves, ProcessStatus
    <2> QED BY <2>3, <2>4
  <1> QED BY <1>5, <1>6, <1>7

(* process() on a request found in the buffer, which passes no test: it is *)
(* in the limits because it came with one chunk.                           *)
LEMMA PipeDeserves ==
  ASSUME SessionAssumption,
         NEW buf \in Seq(Unit), NEW rest \in Seq(Unit), NEW tail \in Seq(Unit),
         NEW r \in Req, buf \o rest = Wire(r) \o tail,
         Len(buf) < RecvMax, HasCompleteRequest(buf)
  PROVE  Wraps(r) \/ Deserves(r) = ProcessStatus(buf)
  <1> DEFINE h == HeaderEnd(buf)
             p == Request[r].parts
             n == Request[r].cl
             len == Len(buf)
             req == ParseRequest(buf)
  <1> SUFFICES ASSUME ~Wraps(r) PROVE Deserves(r) = ProcessStatus(buf)
    OBVIOUS
  <1>1. p \in Nat /\ n \in Nat /\ len \in Nat /\ HeadLimit \in Nat /\ BodyLimit \in Nat
    BY RequestTypes, HttpAssumption
  <1>2. h = IF len > p THEN p + 1 ELSE 0
    BY FrontOfStream
  <1>3. req = IF h # 0 /\ Request[r].wf THEN Request[r] ELSE EmptyRequest
    BY ParseOfStream
  <1>4. h # 0 /\ len >= RequestEnd(h, n)
    <2>1. h # 0 /\ len >= RequestEnd(h, ExtractContentLength(buf, h))
      BY DEF HasCompleteRequest
    <2>2. buf[h].req = r
      BY <2>1, FrontOfStream
    <2> QED BY <2>1, <2>2 DEF ExtractContentLength
  <1>5. h = p + 1 /\ h \in Nat
    <2> HIDE DEF h, p, len
    <2> QED BY <1>1, <1>2, <1>4
  <1>6. RequestEnd(h, n) = h + n
    <2>1. ~(p + 1 + n >= SizeMod)
      BY DEF Wraps
    <2> HIDE DEF h, p, n
    <2>2. h + n \in Nat /\ h + n < SizeMod
      BY <1>1, <1>5, <2>1, HttpAssumption
    <2> QED BY <2>2, ModSmall, HttpAssumption DEF RequestEnd
  <1>7. ~(p + 1 > HeadLimit) /\ ~(n > BodyLimit)
    <2> HIDE DEF h, p, n
    <2> QED BY <1>1, <1>4, <1>5, <1>6, HttpAssumption, SessionAssumption
  <1>8. CASE Request[r].wf
    <2>1. req = Request[r]
      BY <1>3, <1>4, <1>8
    <2>2. ~(len < RequestEnd(h, n))
      <3> HIDE DEF len, h, n, p
      <3>1. h + n \in Nat
        BY <1>1, <1>5
      <3> QED BY <1>1, <1>4, <1>6, <3>1
    <2> QED BY <1>7, <1>8, <2>1, <2>2 DEF Deserves, ProcessStatus, Validate
  <1>9. CASE ~Request[r].wf
    <2>1. req = EmptyRequest
      BY <1>3, <1>9
    <2> QED BY <1>7, <1>9, <2>1, EmptyIsBad DEF Deserves, ProcessStatus
  <1> QED BY <1>8, <1>9

-----------------------------------------------------------------------------
(* A kept connection's response is that of process(), to a request that is *)
(* whole by its own account if it is a POST.                               *)
KeptIsWhole ==
  reg = "out" /\ conn.ka =>
    LET req == ParseRequest(conn.rbuf) IN
    /\ KeepAlive(req)
    /\ ~(req.method = "POST" /\ Len(conn.rbuf) < RequestEnd(HeaderEnd(conn.rbuf), req.cl))

(* What is left behind the answered request has come with its last chunk.  *)
LessThanAChunk ==
  ~derailed =>
    /\ reg = "pipe" => Len(conn.rbuf) < RecvMax
    /\ reg = "out" /\ conn.ka /\ ~Derails(conn.rbuf) =>
         Len(ResetForNextRequest(conn).rbuf) < RecvMax

(* The response that will be sent next. *)
NextDeserved ==
  reg = "out" /\ ~derailed =>
    LET k == Len(answers) + 1 IN
    /\ k <= Len(script)
    /\ conn.wbuf.req = script[k]
    /\ Wraps(script[k]) \/ conn.wbuf.status = Deserves(script[k])

(* The inductive invariant of the stream. *)
FramingInv ==
  FramingKept /\ KeptIsWhole /\ LessThanAChunk /\ NextDeserved /\ AnswersTheScript

(* What a step of the client or of read_once() moves along the stream. *)
LEMMA UnsentType ==
  ASSUME SessionAssumption, SessionInv
  PROVE  /\ script \in Seq(Req) /\ Len(script) \in Nat
         /\ Unsent \in Seq(Unit)
         /\ conn \in Conn /\ conn.rbuf \in Seq(Unit) /\ inbox \in Seq(Unit)
         /\ answers \in Seq(Answer) /\ Len(answers) \in Nat
  <1>1. script \in Seq(Req) /\ pos.req \in Nat \ {0} /\ pos.unit \in Nat \ {0}
    BY DEF SessionInv, TypeOK, SessionAssumption
  <1>2. /\ conn \in Conn /\ conn.rbuf \in Seq(Unit) /\ inbox \in Seq(Unit)
        /\ answers \in Seq(Answer) /\ Len(answers) \in Nat
    BY DEF SessionInv, TypeOK, Conn
  <1>3. Len(script) \in Nat
    BY <1>1
  <1>4. Unsent \in Seq(Unit)
    <2>1. CASE pos.req > Len(script)
      BY <2>1 DEF Unsent
    <2>2. CASE ~(pos.req > Len(script))
      <3> DEFINE units == Wire(script[pos.req])
      <3>1. pos.req \in 1..Len(script)
        BY <1>1, <1>3, <2>2
      <3>2. units \in Seq(Unit) /\ Len(units) \in Nat
        <4>1. script[pos.req] \in Req
          BY <1>1, <3>1
        <4> QED BY <4>1, WireType
      <3> HIDE DEF units
      <3>3. SubSeq(units, pos.unit, Len(units)) \in Seq(Unit)
        BY <1>1, <3>2
      <3>4. WireFrom(pos.req) \in Seq(Unit)
        BY <1>1, WireFromType
      <3>5. Unsent = SubSeq(units, pos.unit, Len(units)) \o WireFrom(pos.req)
        BY <2>2 DEF Unsent, units
      <3> QED BY <3>3, <3>4, <3>5
    <2> QED BY <2>1, <2>2
  <1> QED BY <1>1, <1>2, <1>3, <1>4

(* The stream is the script's. *)
LEMMA StreamOfScript ==
  ASSUME NEW sc, sc = script, NEW j, NEW k, j = k
  PROVE  FlattenSeq([i \in 1..(Len(sc) - j) |-> Wire(sc[j + i])]) = WireFrom(k)
  BY DEF WireFrom

(* A step that leaves the script leaves the stream.                        *)
LEMMA StreamStays ==
  ASSUME script' = script
  PROVE  /\ \A k : pos'.req = k => WireFrom(pos.req)' = WireFrom(k)
         /\ \A k : Len(answers') = k => WireFrom(Len(answers))' = WireFrom(k)
  <1>1. ASSUME NEW k, pos'.req = k PROVE WireFrom(pos.req)' = WireFrom(k)
    <2>1. FlattenSeq([i \in 1..(Len(script') - pos'.req) |-> Wire(script'[pos'.req + i])])
            = WireFrom(k)
      BY <1>1, StreamOfScript
    <2>2. WireFrom(pos.req)' =
            FlattenSeq([i \in 1..(Len(script') - pos'.req) |-> Wire(script'[pos'.req + i])])
      BY DEF WireFrom, Wire
    <2> QED BY <2>1, <2>2
  <1>2. ASSUME NEW k, Len(answers') = k PROVE WireFrom(Len(answers))' = WireFrom(k)
    <2>1. FlattenSeq([i \in 1..(Len(script') - Len(answers')) |-> Wire(script'[Len(answers') + i])])
            = WireFrom(k)
      BY <1>2, StreamOfScript
    <2>2. WireFrom(Len(answers))' =
            FlattenSeq([i \in 1..(Len(script') - Len(answers')) |-> Wire(script'[Len(answers') + i])])
      BY DEF WireFrom, Wire
    <2> QED BY <2>1, <2>2
  <1> QED BY <1>1, <1>2

(* A segment sent by the client leaves the stream as it is.                *)
LEMMA SendKeeps ==
  ASSUME SessionAssumption, SessionInv, Send
  PROVE  /\ inbox' \in Seq(Unit) /\ Unsent' \in Seq(Unit)
         /\ inbox' \o Unsent' = inbox \o Unsent
  <1> DEFINE req == pos.req
             u == pos.unit
             units == Wire(script[req])
             len == Len(units)
  <1>1. /\ script \in Seq(Req) /\ Len(script) \in Nat /\ inbox \in Seq(Unit)
        /\ req \in Nat \ {0} /\ u \in Nat \ {0}
    BY UnsentType DEF SessionInv, TypeOK
  <1>2. req <= Len(script)
    BY DEF Send
  <1>3. script[req] \in Req
    <2> HIDE DEF req
    <2> QED BY <1>1, <1>2
  <1>4. units \in Seq(Unit) /\ len \in Nat \ {0}
    BY <1>3, WireType
  <1>5. u <= len
    BY <1>2 DEF SessionInv, SendsScript
  <1>6. WireFrom(req) \in Seq(Unit)
    BY <1>1, WireFromType
  <1>7. Unsent = SubSeq(units, u, len) \o WireFrom(req)
    <2>1. ~(req > Len(script))
      <3> HIDE DEF req
      <3> QED BY <1>1, <1>2
    <2> QED BY <2>1 DEF Unsent
  <1>8. /\ inbox' = Append(inbox, units[u])
        /\ pos' = IF u < len THEN [pos EXCEPT !.unit = u + 1] ELSE [req |-> req + 1, unit |-> 1]
        /\ script' = script
    BY DEF Send
  <1>9. pos \in [req : Nat \ {0}, unit : Nat \ {0}]
    BY DEF SessionInv, TypeOK
  <1> DEFINE left == SubSeq(units, u + 1, len) \o WireFrom(req)
  <1>11. Unsent' = left
    <2>1. CASE u < len
      <3>1. pos'.req = req /\ pos'.unit = u + 1
        BY <1>8, <1>9, <2>1
      <3>2. ~(pos'.req > Len(script'))
        <4>1. pos'.req = req /\ script' = script
          BY <1>8, <3>1
        <4> HIDE DEF req
        <4> QED BY <1>1, <1>2, <4>1
      <3>3. WireFrom(pos.req)' = WireFrom(req)
        BY <1>8, <3>1, StreamStays
      <3> QED BY <1>8, <3>1, <3>2, <3>3 DEF Unsent
    <2>2. CASE ~(u < len)
      <3>1. pos'.req = req + 1 /\ pos'.unit = 1
        BY <1>8, <2>2
      <3>2. SubSeq(units, u + 1, len) = <<>>
        <4> HIDE DEF units, u, len
        <4> QED BY <1>1, <1>4, <2>2
      <3>3. left = WireFrom(req)
        <4>1. left = <<>> \o WireFrom(req)
          BY <3>2
        <4>2. <<>> \o WireFrom(req) = WireFrom(req)
          BY <1>6, ConcatEmptySeq
        <4> QED BY <4>1, <4>2
      <3>4. CASE req + 1 > Len(script)
        <4>1. WireFrom(req) = <<>>
          <5>1. req \in Nat /\ req >= Len(script)
            <6> HIDE DEF req
            <6> QED BY <1>1, <3>4
          <5> QED BY <1>1, <5>1, WireFromNone
        <4>2. Unsent' = <<>>
          BY <1>8, <3>1, <3>4 DEF Unsent
        <4> QED BY <3>3, <4>1, <4>2
      <3>5. CASE ~(req + 1 > Len(script))
        <4>1. req \in Nat /\ req < Len(script)
          <5> HIDE DEF req
          <5> QED BY <1>1, <3>5
        <4>2. /\ WireFrom(req + 1) \in Seq(Unit)
              /\ WireFrom(req) = Wire(script[req + 1]) \o WireFrom(req + 1)
          BY <1>1, <4>1, WireFromNext
        <4> DEFINE w == Wire(script[req + 1])
        <4>3. w \in Seq(Unit)
          <5>1. script[req + 1] \in Req
            <6> HIDE DEF req
            <6> QED BY <1>1, <4>1
          <5> QED BY <5>1, WireType
        <4>4. SubSeq(w, 1, Len(w)) = w
          <5> HIDE DEF w
          <5> QED BY <4>3, SubSeqFull
        <4>5. Unsent' = SubSeq(w, 1, Len(w)) \o WireFrom(req + 1)
          <5>1. Unsent' = SubSeq(Wire(script[pos.req])', pos'.unit, Len(Wire(script[pos.req])'))
                            \o WireFrom(pos.req)'
            BY <1>8, <3>1, <3>5 DEF Unsent
          <5>2. Wire(script[pos.req])' = w
            BY <1>8, <3>1 DEF Wire
          <5>3. WireFrom(pos.req)' = WireFrom(req + 1)
            BY <1>8, <3>1, StreamStays
          <5> QED BY <3>1, <5>1, <5>2, <5>3
        <4> QED BY <3>3, <4>2, <4>4, <4>5
      <3> QED BY <3>4, <3>5
    <2> QED BY <2>1, <2>2
  <1> HIDE DEF units, u, len, req
  <1>12. u \in 1..len
    BY <1>1, <1>4, <1>5
  <1>13. SubSeq(units, u, len) = <<units[u]>> \o SubSeq(units, u + 1, len)
    BY <1>4, <1>12, SubSeqRecursiveFirst
  <1>14. SubSeq(units, u + 1, len) \in Seq(Unit) /\ units[u] \in Unit
    <2>1. units[u] \in Unit
      BY <1>4, <1>12 DEF len
    <2>2. u + 1 \in Nat \ {0} /\ len \in 0..len
      BY <1>1, <1>4
    <2> QED BY <1>4, <2>1, <2>2, SubSeqType DEF len
  <1> DEFINE more == SubSeq(units, u + 1, len)
             from == WireFrom(req)
             one == <<units[u]>>
  <1>15. inbox' = inbox \o one
    BY <1>1, <1>8, <1>14
  <1> QED
    <2>1. one \in Seq(Unit) /\ more \in Seq(Unit) /\ from \in Seq(Unit)
      BY <1>6, <1>14
    <2>2. Unsent = (one \o more) \o from /\ Unsent' = more \o from
      BY <1>7, <1>11, <1>13
    <2> HIDE DEF one, more, from
    <2>3. inbox \o ((one \o more) \o from) = (inbox \o one) \o (more \o from)
      BY <1>1, <2>1, SMTT(60)
    <2>4. inbox \o one \in Seq(Unit) /\ more \o from \in Seq(Unit)
      BY <1>1, <2>1
    <2> QED BY <1>15, <2>2, <2>3, <2>4

(* The end that the reset computes for a kept request is its true end, and *)
(* it has come, unless the connection derails.                             *)
LEMMA KeptEnds ==
  ASSUME WireAssumption,
         NEW buf \in Seq(Unit), NEW rest \in Seq(Unit), NEW tail \in Seq(Unit),
         NEW r \in Req, buf \o rest = Wire(r) \o tail,
         ~Derails(buf), KeepAlive(ParseRequest(buf)),
         ~(ParseRequest(buf).method = "POST" /\
             Len(buf) < RequestEnd(HeaderEnd(buf), ParseRequest(buf).cl))
  PROVE  /\ HeaderEnd(buf) # 0
         /\ End(buf) = Len(Wire(r))
         /\ Len(Wire(r)) <= Len(buf)
  <1> DEFINE h == HeaderEnd(buf)
             p == Request[r].parts
             n == Request[r].cl
             len == Len(buf)
             wlen == Len(Wire(r))
  <1>1. h # 0
    BY DEF Derails
  <1>2. buf[h].req = r /\ h = p + 1
    <2>1. h = (IF len > p THEN p + 1 ELSE 0) /\ (h # 0 => buf[h].req = r)
      BY FrontOfStream
    <2> QED BY <1>1, <2>1
  <1>3. /\ n = Request[r].body
        /\ ~(Request[r].method # "POST" /\ len < h + n)
    BY <1>2 DEF Derails
  <1>4. /\ p \in Nat /\ n \in Nat /\ len \in Nat /\ wlen \in Nat
        /\ wlen = p + 1 + Request[r].body /\ wlen < SizeMod
    BY RequestTypes, WireUnits, WireType, WireAssumption
  <1>5. h + n = wlen
    <2> HIDE DEF h, p, n, wlen
    <2> QED BY <1>2, <1>3, <1>4
  <1>6. RequestEnd(h, n) = wlen
    <2> HIDE DEF h, n, wlen
    <2> QED BY <1>4, <1>5, ModSmall, HttpAssumption DEF RequestEnd
  <1>7. End(buf) = wlen
    BY <1>2, <1>6 DEF End, ExtractContentLength
  <1>8. ParseRequest(buf) = Request[r]
    <2>1. ParseRequest(buf) # EmptyRequest
      <3>1. ~KeepAlive(EmptyRequest)
        BY DEF KeepAlive, EmptyRequest
      <3> QED BY <3>1, Zenon
    <2> QED BY <2>1, ParseOfStream
  <1>9. ~(Request[r].method = "POST" /\ len < wlen)
    BY <1>6, <1>8
  <1>10. ~(len < wlen)
    BY <1>3, <1>5, <1>9
  <1>11. wlen <= len
    <2> HIDE DEF len, wlen
    <2> QED BY <1>4, <1>10
  <1> QED BY <1>1, <1>7, <1>11

(* A read stops with the chunk in which the request ends.                  *)
LEMMA ChunkBehind ==
  ASSUME SessionAssumption, WireAssumption,
         NEW c \in Conn, ShortOfRequest(c.rbuf),
         NEW in \in Seq(Unit), NEW n \in ReadTakes(c.rbuf, in),
         n > 0, ReadVerdict(AfterRead(c, in, n).rbuf) = "READY",
         NEW rest \in Seq(Unit), NEW tail \in Seq(Unit), NEW r \in Req,
         AfterRead(c, in, n).rbuf \o rest = Wire(r) \o tail,
         ~Derails(AfterRead(c, in, n).rbuf),
         KeepAlive(ParseRequest(AfterRead(c, in, n).rbuf))
  PROVE  Len(ResetForNextRequest(AfterRead(c, in, n)).rbuf) < RecvMax
  <1> DEFINE d == AfterRead(c, in, n)
             all == d.rbuf
             wlen == Len(Wire(r))
             kept == ResetForNextRequest(d).rbuf
  <1>1. n \in 1..Len(in) /\ d \in Conn /\ all = c.rbuf \o SubSeq(in, 1, n)
    <2>1. n \in 0..Len(in) /\ d \in Conn /\ all = c.rbuf \o SubSeq(in, 1, n)
      BY ReadBounds
    <2> QED BY <2>1
  <1>2. c.rbuf \in Seq(Unit) /\ all \in Seq(Unit) /\ Len(all) \in Nat
    <2>1. c.rbuf \in Seq(Unit) /\ all \in Seq(Unit)
      BY <1>1 DEF Conn
    <2> HIDE DEF all
    <2> QED BY <2>1
  <1>3. ReadVerdict(c.rbuf \o SubSeq(in, 1, n)) # "more"
    BY <1>1
  <1>4. PICK m \in 1..n : /\ n < m + RecvMax
                          /\ ShortOfRequest(c.rbuf \o SubSeq(in, 1, m - 1))
    BY <1>2, <1>3, LastChunk
  <1> DEFINE before == c.rbuf \o SubSeq(in, 1, m - 1)
             chunk == SubSeq(in, m, n)
  <1>5. before \in Seq(Unit) /\ chunk \in Seq(Unit) /\ Len(chunk) = n - m + 1
    <2>1. m - 1 \in 0..Len(in) /\ n \in 0..Len(in) /\ m \in Nat \ {0} /\ m <= n
      BY <1>1, <1>4
    <2>2. SubSeq(in, 1, m - 1) \in Seq(Unit)
      BY <2>1, SubSeqType
    <2>3. chunk \in Seq(Unit) /\ Len(chunk) = n - m + 1
      BY <2>1, SubSeqType
    <2> QED BY <1>2, <2>2, <2>3
  <1>6. all = before \o chunk
    BY <1>1, <1>2, <1>4, SplitChunk
  <1> HIDE DEF before, chunk
  <1>7. before \o (chunk \o rest) = Wire(r) \o tail /\ chunk \o rest \in Seq(Unit)
    <2>1. (before \o chunk) \o rest = before \o (chunk \o rest)
      BY <1>5, Regroup
    <2>2. all \o rest = Wire(r) \o tail
      OBVIOUS
    <2>3. (before \o chunk) \o rest = Wire(r) \o tail
      BY <1>6, <2>2
    <2>4. chunk \o rest \in Seq(Unit)
      BY <1>5
    <2> QED BY <2>1, <2>3, <2>4
  <1> DEFINE p == Request[r].parts
             h == HeaderEnd(before)
             b == Len(before)
             a == Len(all)
  <1>8. p \in Nat /\ wlen \in Nat /\ wlen >= p + 1
    <2> DEFINE body == Request[r].body
    <2>1. p \in Nat /\ body \in Nat /\ wlen \in Nat /\ wlen = p + 1 + body
      BY WireUnits, WireType
    <2> HIDE DEF p, body, wlen
    <2> QED BY <2>1
  <1>9. /\ HeaderEnd(all) # 0 /\ End(all) = wlen /\ wlen <= a
    <2>1. ~(ParseRequest(all).method = "POST" /\
             Len(all) < RequestEnd(HeaderEnd(all), ParseRequest(all).cl))
      BY DEF ReadVerdict
    <2> HIDE DEF d
    <2> QED BY <1>2, <2>1, KeptEnds DEF d
  <1>10. a = b + (n - m + 1) /\ b \in Nat /\ a \in Nat
    <2>1. Len(before \o chunk) = Len(before) + Len(chunk) /\ Len(before) \in Nat
      BY <1>5
    <2>2. Len(all) = Len(before \o chunk)
      BY <1>6
    <2> QED BY <1>2, <1>5, <2>1, <2>2
  <1>11. b < wlen
    <2>1. h = (IF b > p THEN p + 1 ELSE 0)
      BY <1>5, <1>7, FrontOfStream
    <2>2. CASE h = 0
      <3> HIDE DEF h, p, b, wlen
      <3> QED BY <1>8, <1>10, <2>1, <2>2
    <2>3. CASE h # 0
      <3>1. End(before \o chunk) = End(before)
        BY <1>5, <2>3, HeaderEndStays
      <3>2. End(before) = wlen
        BY <1>6, <1>9, <3>1
      <3>3. ~(Len(before) >= End(before))
        BY <1>4, <2>3 DEF ShortOfRequest, HasCompleteRequest, End, before
      <3>4. ~(b >= wlen)
        BY <3>2, <3>3
      <3> HIDE DEF b, wlen
      <3> QED BY <1>8, <1>10, <3>4
    <2> QED BY <2>2, <2>3
  <1>12. a - wlen < RecvMax
    <2>1. m \in Nat /\ n \in Nat
      BY <1>1, <1>4
    <2> HIDE DEF a, b, wlen
    <2> QED BY <1>4, <1>8, <1>10, <1>11, <2>1, HttpAssumption
  <1>13. /\ kept \in Seq(Unit)
         /\ Len(kept) # 0 => Len(kept) = a - wlen
    <2> HIDE DEF d
    <2> QED BY <1>1, <1>9, ResetLen
  <1> DEFINE k == Len(kept)
  <1>14. k \in Nat
    BY <1>13
  <1> HIDE DEF kept
  <1>15. CASE k = 0
    BY <1>15, HttpAssumption DEF k, kept
  <1>16. CASE k # 0
    BY <1>12, <1>13, <1>16 DEF k, kept
  <1> QED BY <1>15, <1>16

(* What the invariant says of the response under way and of those sent     *)
(* depends on the script, the connection and the answers alone.            *)
LEMMA FramingSame ==
  ASSUME FramingInv, UNCHANGED <<script, conn, answers, derailed>>, reg' \in {reg, "closed"},
         reg' # "closed" => FramingKept'
  PROVE  FramingInv'
  <1>1. FramingKept'
    BY DEF FramingKept
  <1>2. KeptIsWhole' /\ LessThanAChunk'
    BY DEF FramingInv, KeptIsWhole, LessThanAChunk
  <1>3. NextDeserved' /\ AnswersTheScript'
    BY DEF FramingInv, NextDeserved, AnswersTheScript
  <1> QED BY <1>1, <1>2, <1>3 DEF FramingInv

(* The client's steps, and a hang-up, move units along the stream.         *)
LEMMA FramingClient ==
  ASSUME SessionAssumption, SessionInv, FramingInv, ClientStep \/ HandleHup
  PROVE  FramingInv'
  <1>1. UNCHANGED <<script, conn, answers, derailed>> /\ reg' \in {reg, "closed"}
    <2>1. CASE Send
      BY <2>1 DEF Send
    <2>2. CASE Fin
      BY <2>2 DEF Fin
    <2>3. CASE HandleHup
      BY <2>3 DEF HandleHup, client
    <2> QED BY <2>1, <2>2, <2>3 DEF ClientStep
  <1>2. ASSUME reg' # "closed", ~derailed
        PROVE  conn.rbuf \o inbox' \o Unsent' = WireFrom(Len(answers))
    <2>1. conn.rbuf \o inbox \o Unsent = WireFrom(Len(answers))
      BY <1>1, <1>2 DEF FramingInv, FramingKept
    <2>2. inbox' \o Unsent' = inbox \o Unsent /\ inbox' \in Seq(Unit) /\ Unsent' \in Seq(Unit)
      <3>1. CASE Send
        BY <3>1, SendKeeps
      <3>2. CASE Fin
        <4>1. inbox' = inbox /\ UNCHANGED <<script, pos>>
          BY <3>2 DEF Fin
        <4>2. Unsent' = Unsent
          BY <4>1 DEF Unsent, WireFrom, Wire
        <4> QED BY <4>1, <4>2, UnsentType
      <3> QED BY <1>2, <3>1, <3>2 DEF ClientStep, HandleHup
    <2>3. conn.rbuf \in Seq(Unit) /\ inbox \in Seq(Unit) /\ Unsent \in Seq(Unit)
      BY UnsentType
    <2>4. (conn.rbuf \o inbox) \o Unsent = conn.rbuf \o (inbox \o Unsent)
      BY <2>3, Regroup
    <2>5. (conn.rbuf \o inbox') \o Unsent' = conn.rbuf \o (inbox' \o Unsent')
      BY <2>2, <2>3, Regroup
    <2> QED BY <2>1, <2>2, <2>4, <2>5
  <1>3. WireFrom(Len(answers))' = WireFrom(Len(answers))
    BY <1>1, StreamStays
  <1>4. reg' # "closed" => FramingKept'
    BY <1>1, <1>2, <1>3 DEF FramingKept
  <1> QED BY <1>1, <1>4, FramingSame

(* read_once() moves units from the socket's queue to the buffer and makes *)
(* the response of the request in front.                                   *)
LEMMA FramingRead ==
  ASSUME SessionAssumption, WireAssumption, SessionInv, FramingInv, HandleRead
  PROVE  FramingInv'
  <1>1. /\ script \in Seq(Req) /\ Unsent \in Seq(Unit) /\ inbox \in Seq(Unit)
        /\ conn \in Conn /\ conn.rbuf \in Seq(Unit)
        /\ answers \in Seq(Answer) /\ Len(answers) \in Nat
    BY UnsentType
  <1>2. ShortOfRequest(conn.rbuf) /\ reg = "in"
    BY DEF HandleRead, SessionInv, RoomLeft
  <1>3. PICK n \in ReadTakes(conn.rbuf, inbox) :
          /\ AfterReadOnce(AfterRead(conn, inbox, n),
                           ReadState(conn.rbuf, inbox, n, peer = "fin"))
          /\ inbox' = SubSeq(inbox, n + 1, Len(inbox))
    BY DEF HandleRead
  <1> DEFINE d == AfterRead(conn, inbox, n)
             st == ReadState(conn.rbuf, inbox, n, peer = "fin")
             rest == inbox' \o Unsent
             k == Len(answers)
  <1>4. /\ n \in 0..Len(inbox) /\ d \in Conn
        /\ d.rbuf = conn.rbuf \o SubSeq(inbox, 1, n) /\ d.rbuf \in Seq(Unit)
    <2>1. n \in 0..Len(inbox) /\ d \in Conn /\ d.rbuf = conn.rbuf \o SubSeq(inbox, 1, n)
      BY <1>1, <1>2, ReadBounds
    <2> QED BY <2>1 DEF Conn
  <1>5. UNCHANGED <<script, pos, answers, derailed>>
    BY DEF HandleRead, client
  <1>6. inbox' \in Seq(Unit) /\ SubSeq(inbox, 1, n) \in Seq(Unit)
        /\ inbox = SubSeq(inbox, 1, n) \o inbox'
    BY <1>1, <1>3, <1>4, TakeAndLeave
  <1> HIDE DEF d
  <1>7. ~derailed => d.rbuf \o rest = WireFrom(k)
    <2> SUFFICES ASSUME ~derailed PROVE d.rbuf \o rest = WireFrom(k)
      OBVIOUS
    <2>1. (conn.rbuf \o inbox) \o Unsent = WireFrom(k)
      BY <1>2 DEF FramingInv, FramingKept
    <2> DEFINE x == conn.rbuf
               y == SubSeq(inbox, 1, n)
               z == inbox'
               w == Unsent
    <2>2. x \in Seq(Unit) /\ y \in Seq(Unit) /\ z \in Seq(Unit) /\ w \in Seq(Unit)
      BY <1>1, <1>6
    <2>3. inbox = y \o z /\ d.rbuf = x \o y
      BY <1>4, <1>6
    <2>4. (x \o inbox) \o w = WireFrom(k)
      BY <2>1
    <2> HIDE DEF x, y, z, w
    <2>5. (x \o (y \o z)) \o w = (x \o y) \o (z \o w)
      BY <2>2, SMTT(60)
    <2> QED BY <2>3, <2>4, <2>5 DEF z, w
  <1>8. conn'.rbuf = d.rbuf /\ reg' \in {"in", "out", "closed"}
    <2>1. \A s : Refuse(d, s).rbuf = d.rbuf
      BY <1>4 DEF Refuse, Conn
    <2>2. Process(d).rbuf = d.rbuf
      BY <1>4, ProcessAnswers
    <2>3. AfterReadOnce(d, st)
      BY <1>3 DEF d
    <2> HIDE DEF st
    <2> QED BY <1>2, <2>1, <2>2, <2>3 DEF AfterReadOnce
  <1>9. FramingKept'
    <2>1. Unsent' = Unsent
      BY <1>5 DEF Unsent, WireFrom, Wire
    <2>2. WireFrom(Len(answers))' = WireFrom(Len(answers))
      BY <1>5, StreamStays
    <2>3. (d.rbuf \o inbox') \o Unsent = d.rbuf \o rest
      BY <1>1, <1>4, <1>6, Regroup
    <2>4. ~derailed' => (conn'.rbuf \o inbox') \o Unsent' = WireFrom(Len(answers))'
      BY <1>5, <1>7, <1>8, <2>1, <2>2, <2>3
    <2> QED BY <2>4 DEF FramingKept
  <1>10. AnswersTheScript'
    BY <1>5 DEF FramingInv, AnswersTheScript
  <1>11. CASE reg' \in {"in", "closed"}
    BY <1>9, <1>10, <1>11 DEF FramingInv, KeptIsWhole, LessThanAChunk, NextDeserved
  <1>12. CASE reg' = "out"
    <2> DEFINE v == ReadVerdict(d.rbuf)
               r == script[k + 1]
    <2>1. \/ st \in {"HEAD_TOO_LARGE", "BODY_TOO_LARGE"} /\
               \E s : conn' = Refuse(d, s) /\ s = IF st = "HEAD_TOO_LARGE" THEN "431" ELSE "413"
          \/ st = "READY" /\ conn' = Process(d)
      <3>1. AfterReadOnce(d, st)
        BY <1>3 DEF d
      <3> HIDE DEF st
      <3> QED BY <1>2, <1>12, <3>1 DEF AfterReadOnce
    <2>2. v = st /\ n > 0
      <3>1. st = IF n > 0 /\ v # "more" THEN v ELSE IF peer = "fin" THEN "CLOSED" ELSE "AGAIN"
        BY <1>4 DEF ReadState
      <3> HIDE DEF v, st
      <3> QED BY <2>1, <3>1
    <2>3. d.rbuf # <<>>
      BY <1>4, <2>1, <2>2, VerdictOnSome
    <2>4. rest \in Seq(Unit)
      BY <1>1, <1>6
    <2>5. ~derailed => /\ k < Len(script) /\ r \in Req /\ WireFrom(k + 1) \in Seq(Unit)
                       /\ d.rbuf \o rest = Wire(r) \o WireFrom(k + 1)
      <3> HIDE DEF rest
      <3> QED BY <1>1, <1>4, <1>7, <2>3, <2>4, StreamFront
    <2> HIDE DEF rest, st, v
    <2>6. ~derailed => /\ v = "HEAD_TOO_LARGE" => Deserves(r) = "431"
                       /\ v = "BODY_TOO_LARGE" => Deserves(r) = "413"
                       /\ v = "READY" => Deserves(r) = ProcessStatus(d.rbuf)
                       /\ FrontReq(d.rbuf) = r
      <3> SUFFICES ASSUME ~derailed
                   PROVE  /\ v = "HEAD_TOO_LARGE" => Deserves(r) = "431"
                          /\ v = "BODY_TOO_LARGE" => Deserves(r) = "413"
                          /\ v = "READY" => Deserves(r) = ProcessStatus(d.rbuf)
                          /\ FrontReq(d.rbuf) = r
        OBVIOUS
      <3> DEFINE tail == WireFrom(k + 1)
      <3>1. r \in Req /\ tail \in Seq(Unit) /\ d.rbuf \o rest = Wire(r) \o tail
        BY <2>5
      <3> HIDE DEF r, k, tail
      <3>2. FrontReq(d.rbuf) = r
        BY <1>4, <2>3, <2>4, <3>1, FrontOfStream
      <3>3. /\ ReadVerdict(d.rbuf) = "HEAD_TOO_LARGE" => Deserves(r) = "431"
            /\ ReadVerdict(d.rbuf) = "BODY_TOO_LARGE" => Deserves(r) = "413"
            /\ ReadVerdict(d.rbuf) = "READY" => Deserves(r) = ProcessStatus(d.rbuf)
        BY <1>4, <2>4, <3>1, ReadDeserves
      <3> QED BY <3>2, <3>3 DEF v
    <2>7. /\ conn'.wbuf.req = FrontReq(d.rbuf)
          /\ st = "HEAD_TOO_LARGE" => conn'.wbuf.status = "431" /\ ~conn'.ka
          /\ st = "BODY_TOO_LARGE" => conn'.wbuf.status = "413" /\ ~conn'.ka
          /\ st = "READY" => conn'.wbuf.status = ProcessStatus(d.rbuf)
                             /\ conn'.ka = KeepAlive(ParseRequest(d.rbuf))
      <3>1. CASE st = "READY"
        <4>1. conn' = Process(d)
          BY <2>1, <3>1
        <4> QED BY <1>4, <3>1, <4>1 DEF Process, Conn
      <3>2. CASE st # "READY"
        <4>1. PICK s : conn' = Refuse(d, s) /\ s = IF st = "HEAD_TOO_LARGE" THEN "431" ELSE "413"
          BY <2>1, <3>2
        <4>2. conn'.wbuf = [req |-> FrontReq(d.rbuf), status |-> s] /\ ~conn'.ka
          BY <1>4, <4>1 DEF Refuse, Conn
        <4> QED BY <3>2, <4>1, <4>2
      <3> QED BY <3>1, <3>2
    <2>8. NextDeserved'
      <3> SUFFICES ASSUME ~derailed
                   PROVE  /\ k + 1 <= Len(script)
                          /\ conn'.wbuf.req = r
                          /\ conn'.wbuf.status = Deserves(r)
        BY <1>5 DEF NextDeserved
      <3>1. k + 1 <= Len(script)
        <4>1. Len(script) \in Nat /\ k < Len(script)
          BY <1>1, <2>5
        <4> HIDE DEF k
        <4> QED BY <1>1, <4>1 DEF k
      <3> HIDE DEF k, r
      <3> QED BY <2>1, <2>2, <2>6, <2>7, <3>1
    <2>9. KeptIsWhole'
      <3> SUFFICES ASSUME conn'.ka
                   PROVE  /\ KeepAlive(ParseRequest(d.rbuf))
                          /\ ~(ParseRequest(d.rbuf).method = "POST" /\
                                 Len(d.rbuf) < RequestEnd(HeaderEnd(d.rbuf), ParseRequest(d.rbuf).cl))
        BY <1>8 DEF KeptIsWhole
      <3>1. st = "READY" /\ v = "READY"
        BY <2>1, <2>2, <2>7
      <3> QED BY <2>7, <3>1 DEF ReadVerdict, v
    <2>10. LessThanAChunk'
      <3> SUFFICES ASSUME ~derailed, conn'.ka, ~Derails(d.rbuf)
                   PROVE  Len(ResetForNextRequest(conn').rbuf) < RecvMax
        BY <1>5, <1>8, <1>12 DEF LessThanAChunk
      <3>1. st = "READY" /\ v = "READY" /\ conn' = Process(d)
        BY <2>1, <2>2, <2>7
      <3>2. KeepAlive(ParseRequest(d.rbuf))
        BY <2>7, <3>1
      <3>3. ResetForNextRequest(conn').rbuf = ResetForNextRequest(d).rbuf
        <4>1. conn' \in Conn
          BY <1>4, <3>1, ProcessAnswers
        <4> QED BY <1>4, <1>8, <4>1, SameReset
      <3>4. Len(ResetForNextRequest(d).rbuf) < RecvMax
        BY <1>1, <1>2, <2>2, <2>4, <2>5, <3>1, <3>2, ChunkBehind DEF d, v
      <3> QED BY <3>3, <3>4
    <2> QED BY <1>9, <1>10, <2>8, <2>9, <2>10 DEF FramingInv
  <1> QED BY <1>8, <1>11, <1>12

(* A sent response takes its request off the stream's front.               *)
LEMMA FramingWrite ==
  ASSUME SessionAssumption, WireAssumption, SessionInv, FramingInv, HandleWrite
  PROVE  FramingInv'
  <1> DEFINE buf == conn.rbuf
             k == Len(answers)
             a == [req |-> conn.wbuf.req, status |-> conn.wbuf.status, ka |-> conn.ka]
  <1>1. /\ script \in Seq(Req) /\ Unsent \in Seq(Unit) /\ inbox \in Seq(Unit)
        /\ conn \in Conn /\ buf \in Seq(Unit)
        /\ answers \in Seq(Answer) /\ k \in Nat
    BY UnsentType
  <1>2. /\ UNCHANGED <<script, pos, inbox>> /\ reg = "out"
        /\ answers' = Append(answers, a)
    BY DEF HandleWrite, client
  <1>3. \/ /\ conn.ka /\ conn' = ResetForNextRequest(conn)
           /\ reg' \in {"pipe", "in"} /\ derailed' = (derailed \/ Derails(buf))
        \/ /\ reg' = "closed" /\ UNCHANGED <<conn, derailed>>
    BY DEF HandleWrite
  <1>4. /\ Len(answers') = k + 1
        /\ DOMAIN answers' = 1..(k + 1)
        /\ answers'[k + 1] = a
        /\ \A i \in 1..k : i \in DOMAIN answers /\ answers'[i] = answers[i]
    <2> HIDE DEF a
    <2> QED BY <1>1, <1>2
  <1>5. AnswersTheScript'
    <2> SUFFICES ASSUME ~derailed', NEW i \in 1..(k + 1)
                 PROVE  /\ answers'[i].req = script[i]
                        /\ Wraps(script[i]) \/ answers'[i].status = Deserves(script[i])
      BY <1>2, <1>4 DEF AnswersTheScript
    <2>1. ~derailed
      BY <1>3
    <2>2. CASE i = k + 1
      BY <1>2, <1>4, <2>1, <2>2 DEF FramingInv, NextDeserved
    <2>3. CASE i \in 1..k
      BY <1>4, <2>1, <2>3 DEF FramingInv, AnswersTheScript
    <2>4. i = k + 1 \/ i \in 1..k
      <3> HIDE DEF k
      <3> QED BY <1>1
    <2> QED BY <2>2, <2>3, <2>4
  <1>6. KeptIsWhole' /\ NextDeserved'
    BY <1>3 DEF KeptIsWhole, NextDeserved
  <1>7. LessThanAChunk'
    <2> SUFFICES ASSUME ~derailed', reg' = "pipe" PROVE Len(conn'.rbuf) < RecvMax
      BY <1>3 DEF LessThanAChunk
    <2> QED BY <1>2, <1>3 DEF FramingInv, LessThanAChunk
  <1>8. FramingKept'
    <2> SUFFICES ASSUME ~derailed', reg' # "closed"
                 PROVE  (conn'.rbuf \o inbox') \o Unsent' = WireFrom(Len(answers))'
      BY DEF FramingKept
    <2> DEFINE rest == inbox \o Unsent
               r == script[k + 1]
               w == Wire(r)
               x == WireFrom(k + 1)
    <2>1. ~derailed /\ ~Derails(buf) /\ conn.ka /\ conn' = ResetForNextRequest(conn)
      BY <1>3
    <2>2. rest \in Seq(Unit) /\ buf \o rest = WireFrom(k)
      <3>1. (buf \o inbox) \o Unsent = WireFrom(k)
        BY <1>2, <2>1 DEF FramingInv, FramingKept
      <3> HIDE DEF buf
      <3>2. (buf \o inbox) \o Unsent = buf \o rest
        BY <1>1, Regroup
      <3> QED BY <1>1, <3>1, <3>2
    <2>3. HeaderEnd(buf) # 0 /\ buf # <<>>
      <3>1. HeaderEnd(buf) # 0
        BY <2>1 DEF Derails
      <3>2. HeaderEnd(buf) \in 0..Len(buf)
        BY <1>1, HeaderEndType
      <3> QED BY <3>1, <3>2
    <2> HIDE DEF rest, k
    <2>4. r \in Req /\ x \in Seq(Unit) /\ buf \o rest = w \o x
      BY <1>1, <2>2, <2>3, StreamFront
    <2> HIDE DEF r, x
    <2>5. End(buf) = Len(w) /\ Len(w) <= Len(buf)
      <3>1. /\ KeepAlive(ParseRequest(buf))
            /\ ~(ParseRequest(buf).method = "POST" /\
                   Len(buf) < RequestEnd(HeaderEnd(buf), ParseRequest(buf).cl))
        BY <1>2, <2>1 DEF FramingInv, KeptIsWhole
      <3> QED BY <1>1, <2>1, <2>2, <2>4, <3>1, KeptEnds
    <2>6. w \in Seq(Unit)
      BY <2>4, WireType
    <2>7. conn'.rbuf = SubSeq(buf, Len(w) + 1, Len(buf))
      <3> DEFINE n == Len(buf)
                 e == Len(w)
      <3>1. conn'.rbuf = SubSeq(buf, (IF e < n THEN e ELSE n) + 1, n)
        BY <1>1, <2>1, <2>3, <2>5 DEF ResetForNextRequest, End, Conn
      <3>2. (IF e < n THEN e ELSE n) = e
        <4>1. n \in Nat /\ e \in Nat /\ e <= n
          BY <1>1, <2>5, <2>6
        <4> HIDE DEF n, e
        <4> QED BY <4>1
      <3> QED BY <3>1, <3>2
    <2>8. SubSeq(buf, Len(w) + 1, Len(buf)) \o rest = x
      <3> HIDE DEF buf, w
      <3> QED BY <1>1, <2>2, <2>4, <2>5, <2>6, CutFront
    <2>9. conn'.rbuf \in Seq(Unit)
      BY <1>1, <2>1, ResetLen
    <2>10. (conn'.rbuf \o inbox) \o Unsent = conn'.rbuf \o rest
      BY <1>1, <2>9, Regroup DEF rest
    <2>11. Unsent' = Unsent
      BY <1>2 DEF Unsent, WireFrom, Wire
    <2>12. WireFrom(Len(answers))' = x
      BY <1>2, <1>4, StreamStays DEF x, k
    <2> QED BY <1>2, <2>7, <2>8, <2>10, <2>11, <2>12
  <1> QED BY <1>5, <1>6, <1>7, <1>8 DEF FramingInv

(* A request found in the buffer is answered from it.                      *)
LEMMA FramingPipe ==
  ASSUME SessionAssumption, SessionInv, LimitsInv, FramingInv, RunPipe
  PROVE  FramingInv'
  <1> DEFINE buf == conn.rbuf
             k == Len(answers)
             rest == inbox \o Unsent
             r == script[k + 1]
  <1>1. /\ script \in Seq(Req) /\ Unsent \in Seq(Unit) /\ inbox \in Seq(Unit)
        /\ conn \in Conn /\ buf \in Seq(Unit) /\ k \in Nat /\ Len(script) \in Nat
    BY UnsentType
  <1>2. /\ UNCHANGED <<script, pos, inbox, answers, derailed>>
        /\ reg = "pipe" /\ reg' = "out" /\ conn' = Process(conn)
    BY DEF RunPipe, client
  <1>3. conn' \in Conn /\ conn'.rbuf = buf
    BY <1>1, <1>2, ProcessAnswers
  <1>4. /\ conn'.wbuf.req = FrontReq(buf) /\ conn'.wbuf.status = ProcessStatus(buf)
        /\ conn'.ka = KeepAlive(ParseRequest(buf))
    BY <1>1, <1>2 DEF Process, Conn
  <1>5. HasCompleteRequest(buf)
    BY <1>2 DEF LimitsInv, PipeIsWhole
  <1>6. HeaderEnd(buf) # 0 /\ buf # <<>>
    <2>1. HeaderEnd(buf) # 0 /\ HeaderEnd(buf) \in 0..Len(buf)
      BY <1>1, <1>5, HeaderEndType DEF HasCompleteRequest
    <2> QED BY <2>1
  <1>7. FramingKept'
    <2>1. Unsent' = Unsent
      BY <1>2 DEF Unsent, WireFrom, Wire
    <2>2. WireFrom(Len(answers))' = WireFrom(Len(answers))
      BY <1>2, StreamStays
    <2> QED BY <1>2, <1>3, <2>1, <2>2 DEF FramingInv, FramingKept
  <1>8. AnswersTheScript'
    BY <1>2 DEF FramingInv, AnswersTheScript
  <1>9. ~derailed => Len(buf) < RecvMax
    BY <1>2 DEF FramingInv, LessThanAChunk
  <1>10. NextDeserved'
    <2> SUFFICES ASSUME ~derailed
                 PROVE  /\ k + 1 <= Len(script)
                        /\ conn'.wbuf.req = r
                        /\ Wraps(r) \/ conn'.wbuf.status = Deserves(r)
      BY <1>2 DEF NextDeserved
    <2> DEFINE x == WireFrom(k + 1)
    <2>1. rest \in Seq(Unit) /\ buf \o rest = WireFrom(k)
      <3>1. (buf \o inbox) \o Unsent = WireFrom(k)
        BY <1>2 DEF FramingInv, FramingKept
      <3> HIDE DEF buf
      <3>2. (buf \o inbox) \o Unsent = buf \o rest
        BY <1>1, Regroup
      <3> QED BY <1>1, <3>1, <3>2
    <2> HIDE DEF rest, k
    <2>2. k < Len(script) /\ r \in Req /\ x \in Seq(Unit) /\ buf \o rest = Wire(r) \o x
      BY <1>1, <1>6, <2>1, StreamFront
    <2>3. k + 1 <= Len(script)
      BY <1>1, <2>2
    <2> HIDE DEF r, x
    <2>4. FrontReq(buf) = r
      BY <1>1, <1>6, <2>1, <2>2, FrontOfStream
    <2>5. Wraps(r) \/ Deserves(r) = ProcessStatus(buf)
      BY <1>1, <1>5, <1>9, <2>1, <2>2, PipeDeserves
    <2> QED BY <1>4, <2>3, <2>4, <2>5
  <1>11. KeptIsWhole'
    <2> DEFINE req == ParseRequest(buf)
               h == HeaderEnd(buf)
    <2> SUFFICES ASSUME KeepAlive(req)
                 PROVE  ~(req.method = "POST" /\ Len(buf) < RequestEnd(h, req.cl))
      BY <1>3, <1>4 DEF KeptIsWhole
    <2>1. req # EmptyRequest
      <3>1. ~KeepAlive(EmptyRequest)
        BY DEF KeepAlive, EmptyRequest
      <3> HIDE DEF req
      <3> QED BY <3>1, Zenon
    <2>2. req = Request[buf[h].req]
      BY <2>1 DEF ParseRequest
    <2>3. End(buf) \in Nat /\ End(buf) = RequestEnd(h, req.cl)
      BY <1>1, <1>6, <2>2, EndType DEF End, ExtractContentLength
    <2>4. Len(buf) >= End(buf)
      BY <1>5 DEF HasCompleteRequest, End
    <2>5. Len(buf) \in Nat
      BY <1>1
    <2> HIDE DEF buf, h, req
    <2>6. ~(Len(buf) < End(buf))
      BY <2>3, <2>4, <2>5
    <2> QED BY <2>3, <2>6
  <1>12. LessThanAChunk'
    <2> DEFINE kept == ResetForNextRequest(conn').rbuf
    <2> SUFFICES ASSUME ~derailed PROVE Len(kept) < RecvMax
      BY <1>2 DEF LessThanAChunk
    <2>1. Len(kept) <= Len(buf) /\ kept \in Seq(Unit)
      BY <1>3, ResetLen
    <2>2. Len(kept) \in Nat /\ Len(buf) \in Nat
      BY <1>1, <2>1
    <2> HIDE DEF kept, buf
    <2> QED BY <1>9, <2>1, <2>2, HttpAssumption
  <1> QED BY <1>7, <1>8, <1>10, <1>11, <1>12 DEF FramingInv

-----------------------------------------------------------------------------
(* The theorems. *)

(* The requests stay apart in the stream, every kept response is that of a *)
(* whole request, what is left behind it is less than a chunk, and what is *)
(* being sent is what the next request deserves. The second and the third  *)
(* are why the first survives the reset that drops a request by its own    *)
(* Content-Length.                                                         *)
THEOREM FramingInvariant ==
  Spec => []FramingInv
  <1>1. Init => FramingInv
    <2> SUFFICES ASSUME Init PROVE FramingInv
      OBVIOUS
    <2>1. /\ script \in Seq(Req) /\ reg = "in" /\ inbox = <<>> /\ answers = <<>>
          /\ pos.req = 1 /\ pos.unit = 1 /\ conn.rbuf = <<>>
      BY SessionAssumption DEF Init, InitConn
    <2>2. Len(answers) = 0 /\ DOMAIN answers = {}
      BY <2>1
    <2>3. WireFrom(0) \in Seq(Unit) /\ Len(script) \in Nat
      BY <2>1, WireFromType
    <2>4. Unsent = WireFrom(0)
      <3>1. CASE 1 > Len(script)
        <4>1. WireFrom(0) = <<>>
          BY <2>1, <2>3, <3>1, WireFromNone
        <4> QED BY <2>1, <3>1, <4>1 DEF Unsent
      <3>2. CASE ~(1 > Len(script))
        <4> DEFINE w == Wire(script[1])
        <4>1. script[1] \in Req
          BY <2>1, <2>3, <3>2
        <4>2. w \in Seq(Unit)
          BY <4>1, WireType
        <4>3. SubSeq(w, 1, Len(w)) = w
          <5> HIDE DEF w
          <5> QED BY <4>2, SubSeqFull
        <4>4. 0 < Len(script)
          BY <2>3, <3>2
        <4>5. WireFrom(0) = Wire(script[0 + 1]) \o WireFrom(0 + 1)
          BY <2>1, <4>4, WireFromNext
        <4>6. Unsent = SubSeq(w, 1, Len(w)) \o WireFrom(1)
          BY <2>1, <3>2 DEF Unsent
        <4> QED BY <4>3, <4>5, <4>6
      <3> QED BY <3>1, <3>2
    <2>5. conn.rbuf \o inbox = <<>> /\ <<>> \o WireFrom(0) = WireFrom(0)
      BY <2>1, <2>3, ConcatEmptySeq
    <2>6. FramingKept
      BY <2>2, <2>4, <2>5 DEF FramingKept
    <2> QED BY <2>1, <2>2, <2>6
            DEF FramingInv, KeptIsWhole, LessThanAChunk, NextDeserved, AnswersTheScript
  <1>2. SessionInv /\ LimitsInv /\ FramingInv /\ [Next]_vars => FramingInv'
    <2> SUFFICES ASSUME SessionInv, LimitsInv, FramingInv, [Next]_vars PROVE FramingInv'
      OBVIOUS
    <2> USE SessionAssumption, WireAssumption
    <2>1. CASE ClientStep \/ HandleHup
      BY <2>1, FramingClient
    <2>2. CASE HandleRead
      BY <2>2, FramingRead
    <2>3. CASE HandleWrite
      BY <2>3, FramingWrite
    <2>4. CASE RunPipe
      BY <2>4, FramingPipe
    <2>5. CASE UNCHANGED vars
      <3>1. UNCHANGED <<script, pos, conn, inbox, answers, derailed>> /\ reg' = reg
        BY <2>5 DEF vars, client
      <3>2. Unsent' = Unsent
        BY <3>1 DEF Unsent, WireFrom, Wire
      <3>3. WireFrom(Len(answers))' = WireFrom(Len(answers))
        BY <3>1, StreamStays
      <3>4. FramingKept'
        BY <3>1, <3>2, <3>3 DEF FramingInv, FramingKept
      <3> QED BY <3>1, <3>4, FramingSame
    <2> QED BY <2>1, <2>2, <2>3, <2>4, <2>5 DEF Next, ServerStep
  <1> QED BY <1>1, <1>2, SessionInvariant, LimitsInvariant, PTL DEF Spec

(* Where requests begin in the stream is never lost: the buffer, the       *)
(* socket's queue and what the client has still to send are the stream     *)
(* behind the answered requests, for every script and every cutting of it  *)
(* into segments.                                                          *)
THEOREM SessionFramingKept ==
  Spec => []FramingKept
  <1>1. FramingInv => FramingKept
    BY DEF FramingInv
  <1> QED BY <1>1, FramingInvariant, PTL

(* The k-th response answers the k-th request and is the one it deserves.  *)
THEOREM SessionAnswersTheScript ==
  Spec => []AnswersTheScript
  <1>1. FramingInv => AnswersTheScript
    BY DEF FramingInv
  <1> QED BY <1>1, FramingInvariant, PTL
=============================================================================
