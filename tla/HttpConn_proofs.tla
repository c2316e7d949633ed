--------------------------- MODULE HttpConn_proofs ---------------------------
(***************************************************************************)
(* What the operations on a connection object return, for every request    *)
(* table and every limit: a connection object again, still bound to the    *)
(* socket it was bound to, unless the operation is init().  Then the facts *)
(* about units that the proofs about whole connections share: what find()  *)
(* and parse_request() see in a buffer that begins a request.              *)
(***************************************************************************)
EXTENDS HttpConn, SequenceLemmas

(* read_buf_.find() returns a position in the buffer, or npos. *)
LEMMA HeaderEndType ==
  ASSUME NEW buf \in Seq(Unit)
  PROVE  HeaderEnd(buf) \in 0..Len(buf)
  <1> DEFINE heads == {i \in 1..Len(buf) : buf[i].kind = "head"}
  <1>1. heads \in SUBSET Nat
    OBVIOUS
  <1>2. heads # {} => Min(heads) \in heads
    BY <1>1, MinOfNat
  <1>3. HeaderEnd(buf) = IF heads # {} THEN Min(heads) ELSE 0
    BY DEF HeaderEnd, SelectInSeq
  <1> QED BY <1>2, <1>3

(* A request on the wire has at least the unit that ends its header. *)
LEMMA WireType ==
  ASSUME NEW r \in Req
  PROVE  Wire(r) \in Seq(Unit) /\ Len(Wire(r)) \in Nat \ {0}
  <1> DEFINE n == Request[r].parts + 1 + Request[r].body
             kind(i) == IF i <= Request[r].parts THEN "part"
                        ELSE IF i = Request[r].parts + 1 THEN "head" ELSE "body"
  <1>1. Request[r] \in RequestInfo
    BY HttpAssumption
  <1>2. Request[r].parts \in Nat /\ Request[r].body \in Nat
    BY <1>1 DEF RequestInfo
  <1>3. n \in Nat \ {0}
    BY <1>2
  <1>4. \A i \in 1..n : [kind |-> kind(i), req |-> r] \in Unit
    BY DEF Unit
  <1>5. Wire(r) = [i \in 1..n |-> [kind |-> kind(i), req |-> r]]
    BY DEF Wire
  <1> HIDE DEF n, kind
  <1> QED BY <1>3, <1>4, <1>5

LEMMA NewConnType == NewConn \in Conn
  BY HttpAssumption DEF Conn, NewConn, Nothing, Response

LEMMA ConnInit ==
  ASSUME NEW c \in Conn, NEW s \in Sock
  PROVE  InitConn(c, s) \in Conn
  BY NewConnType DEF Conn, InitConn, NewConn

LEMMA ConnRead ==
  ASSUME NEW c \in Conn, NEW in \in Seq(Unit), NEW n \in 0..Len(in)
  PROVE  AfterRead(c, in, n) \in Conn /\ AfterRead(c, in, n).sock = c.sock
  <1>1. c.rbuf \o SubSeq(in, 1, n) \in Seq(Unit)
    BY DEF Conn
  <1> QED BY <1>1 DEF Conn, AfterRead

LEMMA ConnWrite ==
  ASSUME NEW c \in Conn, NEW n \in Nat
  PROVE  AfterWrite(c, n) \in Conn /\ AfterWrite(c, n).sock = c.sock
  BY DEF Conn, AfterWrite

LEMMA FrontType ==
  ASSUME NEW buf \in Seq(Unit)
  PROVE  FrontReq(buf) \in Req \cup {NoReq}
  <1>1. buf # <<>> => buf[1] \in Unit
    OBVIOUS
  <1> QED BY <1>1 DEF FrontReq, Unit

LEMMA ConnRefuse ==
  ASSUME NEW c \in Conn, NEW st \in Status
  PROVE  Refuse(c, st) \in Conn /\ Refuse(c, st).sock = c.sock
  <1>1. [req |-> FrontReq(c.rbuf), status |-> st] \in Response
    BY FrontType DEF Conn, Response
  <1> QED BY <1>1 DEF Conn, Refuse

LEMMA StatusType ==
  ASSUME NEW buf \in Seq(Unit)
  PROVE  ProcessStatus(buf) \in Status
  BY DEF ProcessStatus, Status

LEMMA KeepAliveType ==
  ASSUME NEW req
  PROVE  KeepAlive(req) \in BOOLEAN
  BY DEF KeepAlive

LEMMA ConnProcess ==
  ASSUME NEW c \in Conn
  PROVE  Process(c) \in Conn /\ Process(c).sock = c.sock
  <1>1. [req |-> FrontReq(c.rbuf), status |-> ProcessStatus(c.rbuf)] \in Response
    BY FrontType, StatusType DEF Conn, Response
  <1>2. KeepAlive(ParseRequest(c.rbuf)) \in BOOLEAN
    BY KeepAliveType
  <1> QED BY <1>1, <1>2 DEF Conn, Process

(* reset_for_next_request() drops a prefix of the buffer. *)
LEMMA ConnReset ==
  ASSUME NEW c \in Conn
  PROVE  /\ ResetForNextRequest(c) \in Conn
         /\ ResetForNextRequest(c).sock = c.sock
  <1> DEFINE h == HeaderEnd(c.rbuf)
             end == RequestEnd(h, ExtractContentLength(c.rbuf, h))
             from == (IF end < Len(c.rbuf) THEN end ELSE Len(c.rbuf)) + 1
             rest == IF h = 0 THEN <<>> ELSE SubSeq(c.rbuf, from, Len(c.rbuf))
  <1>1. c.rbuf \in Seq(Unit)
    BY DEF Conn
  <1>2. h \in 0..Len(c.rbuf)
    BY <1>1, HeaderEndType
  <1>3. h # 0 => end \in Nat
    <2> SUFFICES ASSUME h # 0 PROVE end \in Nat
      OBVIOUS
    <2>1. c.rbuf[h] \in Unit
      BY <1>1, <1>2
    <2>2. Request[c.rbuf[h].req].cl \in Nat
      <3>1. Request[c.rbuf[h].req] \in RequestInfo
        BY <2>1, HttpAssumption DEF Unit
      <3>2. Request[c.rbuf[h].req].cl \in 0..(SizeMod - 1)
        BY <3>1 DEF RequestInfo
      <3> QED BY <3>2, HttpAssumption
    <2>3. ASSUME NEW a \in Nat, NEW m \in Nat \ {0} PROVE a % m \in Nat
      OBVIOUS
    <2>4. h + Request[c.rbuf[h].req].cl \in Nat
      BY <1>2, <2>2
    <2>5. end = (h + Request[c.rbuf[h].req].cl) % SizeMod
      BY DEF RequestEnd, ExtractContentLength
    <2> HIDE DEF h, end
    <2> QED BY <2>3, <2>4, <2>5, HttpAssumption
  <1>4. rest \in Seq(Unit)
    BY <1>1, <1>3, SubSeqProperties
  <1>5. Nothing \in Response
    BY DEF Nothing, Response
  <1>6. ResetForNextRequest(c) =
          [c EXCEPT !.rbuf = rest, !.wbuf = Nothing, !.sent = 0, !.ka = FALSE]
    BY DEF ResetForNextRequest
  <1> HIDE DEF rest, h, end, from
  <1>7. /\ [c EXCEPT !.rbuf = rest, !.wbuf = Nothing, !.sent = 0, !.ka = FALSE] \in Conn
        /\ [c EXCEPT !.rbuf = rest, !.wbuf = Nothing, !.sent = 0, !.ka = FALSE].sock = c.sock
    BY <1>4, <1>5 DEF Conn
  <1> QED BY <1>6, <1>7

(* What write() sends is a sequence of response units. *)
LEMMA SentType ==
  ASSUME NEW c \in Conn, NEW n \in Nat
  PROVE  Sent(c, n) \in Seq([req : Req \cup {NoReq}, part : Nat])
  <1> DEFINE unit(i) == [req |-> c.wbuf.req, part |-> c.sent + i]
             k == IF n > c.sent THEN n - c.sent ELSE 0
             S == [req : Req \cup {NoReq}, part : Nat]
  <1>1. c.sent \in Nat /\ c.wbuf.req \in Req \cup {NoReq}
    BY DEF Conn, Response
  <1>2. k \in Nat /\ 1..(n - c.sent) = 1..k
    BY <1>1
  <1>3. \A i \in 1..k : unit(i) \in S
    BY <1>1, <1>2
  <1>4. Sent(c, n) = [i \in 1..k |-> unit(i)]
    BY <1>2 DEF Sent
  <1> HIDE DEF unit, k, S
  <1>5. [i \in 1..k |-> unit(i)] \in Seq(S)
    BY <1>2, <1>3
  <1> QED BY <1>4, <1>5 DEF S

-----------------------------------------------------------------------------
(* Sequences of units, and what a buffer holds that begins a request.      *)

(* The position find() returns is that of the first header end. *)
LEMMA HeaderEndFirst ==
  ASSUME NEW buf \in Seq(Unit)
  PROVE  LET h == HeaderEnd(buf) IN
         /\ h \in 0..Len(buf)
         /\ h # 0 => buf[h].kind = "head"
         /\ \A i \in 1..Len(buf) : buf[i].kind = "head" => h # 0 /\ h <= i
  <1> DEFINE heads == {i \in 1..Len(buf) : buf[i].kind = "head"}
  <1>1. heads \in SUBSET Nat
    OBVIOUS
  <1>2. heads # {} => Min(heads) \in heads /\ \A i \in heads : Min(heads) <= i
    BY <1>1, MinOfNat
  <1>3. HeaderEnd(buf) = IF heads # {} THEN Min(heads) ELSE 0
    BY DEF HeaderEnd, SelectInSeq
  <1>4. \A i \in 1..Len(buf) : buf[i].kind = "head" => i \in heads
    OBVIOUS
  <1>5. \A i \in heads : i \in 1..Len(buf) /\ buf[i].kind = "head"
    OBVIOUS
  <1> HIDE DEF heads
  <1> QED BY <1>2, <1>3, <1>4, <1>5

(* Concatenation of units is associative, as a quantified fact.            *)
LEMMA Regroup ==
  \A x, y, z \in Seq(Unit) : (x \o y) \o z = x \o (y \o z)
  BY ConcatAssociative

(* A part of a sequence of units.                                          *)
LEMMA SubSeqType ==
  ASSUME NEW s \in Seq(Unit), NEW m \in Nat \ {0}, NEW n \in 0..Len(s)
  PROVE  /\ SubSeq(s, m, n) \in Seq(Unit)
         /\ Len(SubSeq(s, m, n)) = IF m <= n THEN n - m + 1 ELSE 0
  <1> DEFINE len == Len(s)
  <1>1. len \in Nat /\ n \in 0..len /\ \A i \in 1..len : s[i] \in Unit
    OBVIOUS
  <1> HIDE DEF len
  <1>2. \A i \in m..n : s[i] \in Unit
    BY <1>1
  <1> QED BY <1>1, <1>2, SubSeqProperties

(* What is taken from the socket's queue and what is left in it. *)
LEMMA TakeAndLeave ==
  ASSUME NEW in \in Seq(Unit), NEW n \in 0..Len(in)
  PROVE  /\ SubSeq(in, 1, n) \in Seq(Unit) /\ SubSeq(in, n + 1, Len(in)) \in Seq(Unit)
         /\ in = SubSeq(in, 1, n) \o SubSeq(in, n + 1, Len(in))
  <1> DEFINE len == Len(in)
  <1>1. n \in Nat /\ n <= len /\ len \in Nat /\ \A i \in 1..len : in[i] \in Unit
    OBVIOUS
  <1> HIDE DEF len
  <1>2. 1 \in 1..(len + 1) /\ n \in (1 - 1)..len /\ len \in n..len
    BY <1>1
  <1>3. SubSeq(in, 1, n) \o SubSeq(in, n + 1, len) = SubSeq(in, 1, len)
    BY <1>2, ConcatAdjacentSubSeq DEF len
  <1>4. SubSeq(in, 1, len) = in
    BY SubSeqFull DEF len
  <1>5. n + 1 \in Nat \ {0} /\ len \in 0..len /\ n \in 0..len
    BY <1>1
  <1>6. SubSeq(in, 1, n) \in Seq(Unit) /\ SubSeq(in, n + 1, len) \in Seq(Unit)
    BY <1>5, SubSeqType DEF len
  <1> QED BY <1>3, <1>4, <1>6 DEF len

(* What the header of a request says has its type. *)
LEMMA RequestTypes ==
  ASSUME NEW r \in Req
  PROVE  /\ Request[r].parts \in Nat /\ Request[r].body \in Nat /\ Request[r].cl \in Nat
         /\ Request[r].cl < SizeMod
         /\ Request[r].method \in {"GET", "POST", "other"}
  <1>1. Request[r] \in RequestInfo
    BY HttpAssumption
  <1>2. /\ Request[r].parts \in Nat /\ Request[r].body \in Nat
        /\ Request[r].cl \in 0..(SizeMod - 1)
        /\ Request[r].method \in {"GET", "POST", "other"}
    BY <1>1 DEF RequestInfo
  <1> DEFINE n == Request[r].cl
  <1>3. n \in Nat /\ n < SizeMod
    <2> HIDE DEF n
    <2> QED BY <1>2, HttpAssumption DEF n
  <1> QED BY <1>2, <1>3

(* The end of a request that does not wrap. *)
LEMMA ModSmall ==
  ASSUME NEW a \in Nat, NEW m \in Nat \ {0}, a < m
  PROVE  a % m = a
  OBVIOUS

(* Where a header is in the requests' units. *)
LEMMA WireUnits ==
  ASSUME NEW r \in Req
  PROVE  /\ Request[r].parts \in Nat /\ Request[r].body \in Nat
         /\ Len(Wire(r)) = Request[r].parts + 1 + Request[r].body
         /\ \A i \in 1..Len(Wire(r)) :
              /\ Wire(r)[i].req = r
              /\ Wire(r)[i].kind = "head" <=> i = Request[r].parts + 1
  <1>1. Request[r] \in RequestInfo
    BY HttpAssumption
  <1>2. Request[r].parts \in Nat /\ Request[r].body \in Nat
    BY <1>1 DEF RequestInfo
  <1>3. Len(Wire(r)) = Request[r].parts + 1 + Request[r].body
    BY <1>2 DEF Wire
  <1>4. ASSUME NEW i \in 1..Len(Wire(r))
        PROVE  /\ Wire(r)[i].req = r
               /\ Wire(r)[i].kind = "head" <=> i = Request[r].parts + 1
    <2>1. Wire(r)[i] = [kind |-> IF i <= Request[r].parts THEN "part"
               ELSE IF i = Request[r].parts + 1 THEN "head" ELSE "body",
                        req |-> r]
      BY <1>3 DEF Wire
    <2> QED BY <1>2, <2>1
  <1> QED BY <1>2, <1>3, <1>4

(* find() sees the header of the first request as soon as all of it is in  *)
(* the buffer, and no other.                                               *)
LEMMA FrontOfStream ==
  ASSUME NEW buf \in Seq(Unit), NEW rest \in Seq(Unit), NEW tail \in Seq(Unit),
         NEW r \in Req, buf \o rest = Wire(r) \o tail
  PROVE  LET h == HeaderEnd(buf) IN
         /\ buf # <<>> => FrontReq(buf) = r
         /\ h = IF Len(buf) > Request[r].parts THEN Request[r].parts + 1 ELSE 0
         /\ h # 0 => buf[h].req = r /\ WholeHeader(buf, h)
  <1> DEFINE all == buf \o rest
             w == Wire(r)
             p == Request[r].parts
             h == HeaderEnd(buf)
             len == Len(buf)
  <1>1. /\ p \in Nat /\ Request[r].body \in Nat
        /\ Len(w) = p + 1 + Request[r].body
        /\ \A i \in 1..Len(w) : w[i].req = r /\ (w[i].kind = "head" <=> i = p + 1)
    BY WireUnits
  <1>2. w \in Seq(Unit)
    BY WireType
  <1>3. all \in Seq(Unit) /\ len \in Nat /\ Len(w) \in Nat
    BY <1>2
  <1>4. \A i \in 1..len : all[i] = buf[i]
    OBVIOUS
  <1>5. \A i \in 1..Len(w) : all[i] = w[i]
    <2>1. \A i \in 1..Len(w) : (w \o tail)[i] = w[i]
      BY <1>2
    <2> QED BY <2>1
  <1>6. /\ h \in 0..len
        /\ h # 0 => buf[h].kind = "head"
        /\ \A i \in 1..len : buf[i].kind = "head" => h # 0 /\ h <= i
    BY HeaderEndFirst
  <1>7. \A i \in 1..len : i <= p + 1 =>
          buf[i].req = r /\ (buf[i].kind = "head" <=> i = p + 1)
    <2> SUFFICES ASSUME NEW i \in 1..len, i <= p + 1
                 PROVE  buf[i].req = r /\ (buf[i].kind = "head" <=> i = p + 1)
      OBVIOUS
    <2>1. i \in 1..Len(w)
      <3> HIDE DEF w, p, len
      <3> QED BY <1>1, <1>3
    <2> HIDE DEF w, p, len, all
    <2> QED BY <1>1, <1>4, <1>5, <2>1
  <1>8. buf # <<>> => FrontReq(buf) = r
    <2>1. buf # <<>> => 1 \in 1..len /\ 1 <= p + 1
      BY <1>1, <1>3
    <2> HIDE DEF p, len
    <2> QED BY <1>7, <2>1 DEF FrontReq
  <1>9. h = IF len > p THEN p + 1 ELSE 0
    <2> HIDE DEF w, p, len, all, h
    <2>1. CASE len > p
      <3>1. p + 1 \in 1..len
        BY <1>1, <1>3, <2>1
      <3>2. h # 0 /\ h <= p + 1
        BY <1>1, <1>6, <1>7, <3>1
      <3>3. h \in 1..len
        BY <1>3, <1>6, <3>2
      <3> QED BY <1>6, <1>7, <2>1, <3>2, <3>3
    <2>2. CASE ~(len > p)
      <3>1. ASSUME h # 0 PROVE FALSE
        <4>1. h \in 1..len /\ h <= p + 1 /\ h # p + 1
          BY <1>1, <1>3, <1>6, <2>2, <3>1
        <4> QED BY <1>6, <1>7, <3>1, <4>1
      <3> QED BY <2>2, <3>1
    <2> QED BY <2>1, <2>2
  <1>10. h # 0 => buf[h].req = r /\ WholeHeader(buf, h)
    <2> SUFFICES ASSUME h # 0 PROVE buf[h].req = r /\ WholeHeader(buf, h)
      OBVIOUS
    <2>1. h = p + 1 /\ h \in 1..len
      BY <1>1, <1>3, <1>6, <1>9
    <2>2. buf[h].req = r
      BY <1>7, <2>1
    <2>3. \A i \in 1..h : buf[i].req = r
      <3> HIDE DEF p, len, h
      <3> QED BY <1>1, <1>3, <1>7, <2>1
    <2> QED BY <2>1, <2>2, <2>3 DEF WholeHeader
  <1> QED BY <1>8, <1>9, <1>10

(* What parse_request() finds at the front. *)
LEMMA ParseOfStream ==
  ASSUME NEW buf \in Seq(Unit), NEW rest \in Seq(Unit), NEW tail \in Seq(Unit),
         NEW r \in Req, buf \o rest = Wire(r) \o tail
  PROVE  ParseRequest(buf) =
           IF HeaderEnd(buf) # 0 /\ Request[r].wf THEN Request[r] ELSE EmptyRequest
  BY FrontOfStream DEF ParseRequest

(* A buffer that satisfies read_once() holds something. *)
LEMMA VerdictOnSome ==
  ASSUME NEW buf \in Seq(Unit), ReadVerdict(buf) # "more"
  PROVE  buf # <<>>
  <1> SUFFICES ASSUME buf = <<>> PROVE FALSE
    OBVIOUS
  <1>1. HeaderEnd(buf) \in 0..Len(buf) /\ Len(buf) = 0
    BY HeaderEndType
  <1>2. HeaderEnd(buf) = 0 /\ ~(Len(buf) > HeadLimit)
    BY <1>1, HttpAssumption
  <1> QED BY <1>2 DEF ReadVerdict

(* Requests within both limits whose body, which only a parsed POST has,   *)
(* is no longer than its Content-Length: nothing a client sends arrives    *)
(* behind a request that read_once() has accepted or refused without it.   *)
PlainRequests ==
  /\ HeadLimit + BodyLimit < SizeMod
  /\ \A r \in Req :
       /\ Request[r].parts < HeadLimit
       /\ Request[r].cl <= BodyLimit
       /\ Request[r].body <=
            IF Request[r].wf /\ Request[r].method = "POST" THEN Request[r].cl ELSE 0

(* s is the beginning of request r, or all of it. *)
Begins(s, r) ==
  /\ Len(s) <= Len(Wire(r))
  /\ \A i \in 1..Len(s) : s[i] = Wire(r)[i]

(* The response after d whole ones. *)
LEMMA TimesNext ==
  ASSUME NEW d \in Nat, NEW n \in Nat
  PROVE  d * n \in Nat /\ (d + 1) * n = d * n + n
  OBVIOUS

(* In which response a unit lies, and where. *)
LEMMA DivMod ==
  ASSUME NEW d \in Nat, NEW n \in Nat \ {0}, NEW s \in Nat, s < n
  PROVE  (d * n + s) \div n = d /\ (d * n + s) % n = s
  OBVIOUS

(* Concatenation of units. *)
LEMMA ConcatUnits ==
  ASSUME NEW x \in Seq(Unit), NEW y \in Seq(Unit)
  PROVE  /\ x \o y \in Seq(Unit)
         /\ x \o <<>> = x
         /\ \A u \in Unit : x \o Append(y, u) = Append(x \o y, u)
  OBVIOUS

(* What begins a request is followed by the rest of it. *)
LEMMA BeginsRest ==
  ASSUME NEW r \in Req, NEW s \in Seq(Unit), Begins(s, r)
  PROVE  \E rest \in Seq(Unit) : s \o rest = Wire(r) \o <<>>
  <1> DEFINE w == Wire(r)
             n == Len(s)
             rest == SubSeq(w, n + 1, Len(w))
  <1>1. w \in Seq(Unit) /\ n \in 0..Len(w) /\ n \in Nat
    BY WireType DEF Begins
  <1>2. \A i \in 1..n : s[i] = w[i]
    BY DEF Begins
  <1> HIDE DEF w
  <1>3. /\ SubSeq(w, 1, n) \in Seq(Unit) /\ rest \in Seq(Unit)
        /\ w = SubSeq(w, 1, n) \o rest
    BY <1>1, TakeAndLeave
  <1>4. SubSeq(w, 1, n) = s
    BY <1>1, <1>2
  <1>5. w \o <<>> = w
    BY <1>1
  <1> QED BY <1>3, <1>4, <1>5 DEF w

(* What the parser finds in it. *)
LEMMA BeginsParse ==
  ASSUME NEW r \in Req, NEW s \in Seq(Unit), Begins(s, r)
  PROVE  /\ s # <<>> => FrontReq(s) = r
         /\ HeaderEnd(s) = IF Len(s) > Request[r].parts THEN Request[r].parts + 1 ELSE 0
         /\ HeaderEnd(s) # 0 => s[HeaderEnd(s)].req = r
         /\ ParseRequest(s) =
              IF HeaderEnd(s) # 0 /\ Request[r].wf THEN Request[r] ELSE EmptyRequest
  <1>1. PICK rest \in Seq(Unit) : s \o rest = Wire(r) \o <<>>
    BY BeginsRest
  <1>2. <<>> \in Seq(Unit)
    OBVIOUS
  <1> QED BY <1>1, <1>2, FrontOfStream, ParseOfStream

(* read_once() accepts a request that it holds whole, and no other. *)
LEMMA BeginsVerdict ==
  ASSUME PlainRequests, NEW r \in Req, NEW s \in Seq(Unit), Begins(s, r)
  PROVE  /\ ReadVerdict(s) \in {"more", "READY"}
         /\ ReadVerdict(s) = "READY" => s = Wire(r) /\ s # <<>>
  <1> DEFINE q == Request[r]
             h == HeaderEnd(s)
             len == Len(s)
             wlen == Len(Wire(r))
             v == ReadVerdict(s)
             x == ParseRequest(s)
  <1>1. /\ q.parts \in Nat /\ q.body \in Nat /\ q.cl \in Nat
        /\ wlen = q.parts + 1 + q.body
        /\ len \in Nat /\ len <= wlen
    BY RequestTypes, WireUnits DEF Begins
  <1>2. /\ q.parts < HeadLimit /\ q.cl <= BodyLimit
        /\ q.body <= IF q.wf /\ q.method = "POST" THEN q.cl ELSE 0
        /\ HeadLimit + BodyLimit < SizeMod
        /\ HeadLimit \in Nat /\ BodyLimit \in Nat /\ SizeMod \in Nat \ {0}
    BY HttpAssumption DEF PlainRequests
  <1>3. /\ h = IF len > q.parts THEN q.parts + 1 ELSE 0
        /\ x = IF h # 0 /\ q.wf THEN q ELSE EmptyRequest
    BY BeginsParse
  <1>4. RequestEnd(q.parts + 1, q.cl) = q.parts + 1 + q.cl
    <2> DEFINE a == q.parts + 1 + q.cl
    <2>1. a \in Nat /\ a < SizeMod
      <3> HIDE DEF q
      <3> QED BY <1>1, <1>2
    <2> HIDE DEF a
    <2>2. a % SizeMod = a
      BY <1>2, <2>1, ModSmall
    <2> QED BY <2>2 DEF RequestEnd, a
  <1>5. EmptyRequest.cl = 0 /\ EmptyRequest.method # "POST"
    BY DEF EmptyRequest
  <1>6. v = IF h = 0 THEN IF len > HeadLimit THEN "HEAD_TOO_LARGE" ELSE "more"
            ELSE IF h > HeadLimit THEN "HEAD_TOO_LARGE"
            ELSE IF x.cl > BodyLimit THEN "BODY_TOO_LARGE"
            ELSE IF x.method = "POST" /\ len < RequestEnd(h, x.cl) THEN "more"
            ELSE "READY"
    BY DEF ReadVerdict
  <1> HIDE DEF q, h, len, wlen, v, x
  <1>7. CASE h = 0
    <2>1. ~(len > HeadLimit)
      BY <1>1, <1>2, <1>3, <1>7
    <2> QED BY <1>6, <1>7, <2>1 DEF v
  <1>8. CASE h # 0
    <2>1. h = q.parts + 1 /\ ~(h > HeadLimit) /\ len >= q.parts + 1
      BY <1>1, <1>2, <1>3, <1>8
    <2>2. ~(x.cl > BodyLimit)
      BY <1>1, <1>2, <1>3, <1>5
    <2>3. v \in {"more", "READY"}
      BY <1>6, <1>8, <2>1, <2>2
    <2>4. ASSUME v = "READY" PROVE len = wlen
      <3>1. ~(x.method = "POST" /\ len < RequestEnd(h, x.cl))
        BY <1>6, <1>8, <2>1, <2>2, <2>4
      <3>2. CASE q.wf /\ q.method = "POST"
        <4>1. len >= q.parts + 1 + q.cl
          <5>1. x = q /\ RequestEnd(h, x.cl) = q.parts + 1 + q.cl
            BY <1>3, <1>4, <1>8, <2>1, <3>2
          <5> QED BY <1>1, <3>1, <3>2, <5>1
        <4>2. q.body <= q.cl
          BY <1>2, <3>2
        <4> QED BY <1>1, <4>1, <4>2
      <3>3. CASE ~(q.wf /\ q.method = "POST")
        <4>1. q.body <= 0
          BY <1>2, <3>3
        <4> QED BY <1>1, <2>1, <4>1
      <3> QED BY <3>2, <3>3
    <2>5. len = wlen => s = Wire(r)
      <3>1. Wire(r) \in Seq(Unit)
        BY WireType
      <3> QED BY <3>1 DEF Begins, len, wlen
    <2>6. s # <<>>
      <3>1. len # 0
        BY <1>1, <2>1
      <3> QED BY <3>1 DEF len
    <2> QED BY <2>3, <2>4, <2>5, <2>6 DEF v
  <1> QED BY <1>7, <1>8

(* What write() sends. *)
ResponseUnit == [req : Req \cup {NoReq}, part : Nat]

(* What write() moves to the socket, and where it comes to lie. *)
LEMMA SentUnits ==
  ASSUME NEW conn \in Conn, NEW n \in Nat, conn.sent <= n,
         NEW out \in Seq(ResponseUnit)
  PROVE  LET more == out \o Sent(conn, n) IN
         /\ more \in Seq(ResponseUnit)
         /\ Len(more) = Len(out) + (n - conn.sent)
         /\ \A i \in 1..Len(out) : more[i] = out[i]
         /\ \A j \in 1..(n - conn.sent) :
              more[Len(out) + j] = [req |-> conn.wbuf.req, part |-> conn.sent + j]
  <1> DEFINE s == Sent(conn, n)
             k == n - conn.sent
  <1>1. conn.sent \in Nat /\ k \in Nat
    BY DEF Conn
  <1>2. s \in Seq(ResponseUnit)
    BY SentType DEF ResponseUnit
  <1>3. Len(s) = k /\ \A j \in 1..k : s[j] = [req |-> conn.wbuf.req, part |-> conn.sent + j]
    <2> HIDE DEF k
    <2>1. s = [i \in 1..k |-> [req |-> conn.wbuf.req, part |-> conn.sent + i]]
      BY DEF Sent, k
    <2> HIDE DEF s
    <2> QED BY <1>1, <2>1
  <1> HIDE DEF s
  <1>4. Len(s) \in Nat /\ Len(out) \in Nat
    BY <1>2
  <1>5. out \o s \in Seq(ResponseUnit) /\ Len(out \o s) = Len(out) + Len(s)
    BY <1>2
  <1>6. \A i \in 1..Len(out) : (out \o s)[i] = out[i]
    BY <1>2
  <1>7. ASSUME NEW j \in 1..k PROVE (out \o s)[Len(out) + j] = s[j]
    <2> HIDE DEF k
    <2> QED BY <1>1, <1>2, <1>3, <1>4
  <1> QED BY <1>3, <1>5, <1>6, <1>7 DEF s
=============================================================================
