------------------------------ MODULE HttpConn ------------------------------
(***************************************************************************)
(* http/http_conn.cpp: one connection's buffers and what its methods do to *)
(* them.  The module has no variables: a connection object is a record,    *)
(* each method is an operator on it, and the modules that own connections  *)
(* (WebServer, HttpSession) call the operators from their actions.         *)
(*                                                                         *)
(* Bytes are abstracted to units.  A request travels as its header, cut    *)
(* into "part" units and one "head" unit that ends with the blank line,    *)
(* followed by "body" units; sizes and limits count units.  What the       *)
(* parser finds in a header is given by the constant Request.  A body is   *)
(* taken to be text with blanks in it, so that body units left in front of *)
(* a request never parse as (part of) a request line.                      *)
(***************************************************************************)
EXTENDS Naturals, Sequences, SequencesExt

CONSTANTS
  Req,        (* the requests clients send                                 *)
  Request,    (* what each request's header says, see RequestInfo          *)
  Sock,       (* the sockets a connection object can be bound to           *)
  NoSock,     (* fd_ = -1                                                  *)
  NoReq,      (* a response that answers no request                        *)
  HeadLimit,  (* HEADLIMIT, in units                                       *)
  BodyLimit,  (* BODYLIMIT, in units                                       *)
  RecvMax,    (* the size of read_once()'s buffer: units per recv()        *)
  RespLen,    (* units of a response                                       *)
  SizeMod     (* size_t arithmetic is modulo SizeMod                       *)

(* parts: "part" units of the header; wf: parse_request() accepts it;      *)
(* slash: the url starts with '/'; cl: the Content-Length that is found;   *)
(* body: the body units the client really sends.                           *)
RequestInfo ==
  [parts : Nat, wf : BOOLEAN, method : {"GET", "POST", "other"},
   version : {"1.1", "1.0", "other"}, host : BOOLEAN,
   connection : {"", "close", "keep-alive", "other"}, slash : BOOLEAN,
   cl : 0..(SizeMod - 1), body : Nat]

ASSUME HttpAssumption ==
  /\ Request \in [Req -> RequestInfo]
  /\ NoReq \notin Req
  /\ NoSock \notin Sock
  /\ HeadLimit \in Nat /\ BodyLimit \in Nat
  /\ RecvMax \in Nat \ {0} /\ RespLen \in Nat \ {0} /\ SizeMod \in Nat \ {0}

Unit == [kind : {"part", "head", "body"}, req : Req]

(* What a client puts on the wire for request r. *)
Wire(r) ==
  [i \in 1..(Request[r].parts + 1 + Request[r].body) |->
     [kind |-> IF i <= Request[r].parts THEN "part"
               ELSE IF i = Request[r].parts + 1 THEN "head" ELSE "body",
      req |-> r]]

Status == {"page", "400", "405", "413", "431"}

(* write_buf_: the response it holds, or nothing. *)
Response == [req : Req \cup {NoReq}, status : Status \cup {""}]
Nothing == [req |-> NoReq, status |-> ""]

(* The object: sock is the socket behind fd_, gen is gen_, rbuf read_buf_, *)
(* wbuf write_buf_, sent bytes_sent_ and ka keep_alive_.                   *)
Conn == [sock : Sock \cup {NoSock}, gen : Nat, rbuf : Seq(Unit),
         wbuf : Response, sent : Nat, ka : BOOLEAN]

NewConn == [sock |-> NoSock, gen |-> 0, rbuf |-> <<>>, wbuf |-> Nothing,
            sent |-> 0, ka |-> FALSE]

(* init(fd) *)
InitConn(c, s) ==
  [sock |-> s, gen |-> c.gen + 1, rbuf |-> <<>>, wbuf |-> Nothing, sent |-> 0, ka |-> FALSE]

-----------------------------------------------------------------------------
(* Parsing.                                                                *)

(* read_buf_.find("\r\n\r\n"): the unit it is in, 0 for npos. *)
HeaderEnd(buf) == SelectInSeq(buf, LAMBDA u : u.kind = "head")

EmptyRequest ==
  [parts |-> 0, wf |-> FALSE, method |-> "", version |-> "", host |-> FALSE,
   connection |-> "", slash |-> FALSE, cl |-> 0, body |-> 0]

(* The header block at the front of buf is exactly one request's header. *)
WholeHeader(buf, h) ==
  /\ h = Request[buf[h].req].parts + 1
  /\ \A i \in 1..h : buf[i].req = buf[h].req

ParseRequest(buf) ==
  LET h == HeaderEnd(buf) IN
  IF h # 0 /\ WholeHeader(buf, h) /\ Request[buf[h].req].wf
  THEN Request[buf[h].req]
  ELSE EmptyRequest

(* extract_content_length() skips the lines it cannot use, so it finds the *)
(* Content-Length of a header that parse_request() rejects.                *)
ExtractContentLength(buf, h) == Request[buf[h].req].cl

(* body_start + content_length, in size_t. *)
RequestEnd(h, n) == (h + n) % SizeMod

Validate(req) ==
  IF req.method = "" THEN "BadRequest"
  ELSE IF req.method \notin {"GET", "POST"} THEN "NotAllowed"
  ELSE IF \/ req.version \notin {"1.1", "1.0"}
          \/ req.version = "1.1" /\ ~req.host
          \/ req.connection \notin {"", "close", "keep-alive"}
          \/ ~req.slash
       THEN "BadRequest"
  ELSE "OK"

KeepAlive(req) ==
  IF req.version = "1.1" THEN req.connection # "close"
                         ELSE req.connection = "keep-alive"

HasCompleteRequest(buf) ==
  LET h == HeaderEnd(buf) IN
  h # 0 /\ Len(buf) >= RequestEnd(h, ExtractContentLength(buf, h))

-----------------------------------------------------------------------------
(* read_once(): recv until the buffer satisfies the caller, the socket is  *)
(* drained, or the peer is gone.                                           *)

(* Mutant: BODYLIMIT is not tested. *)
ReadVerdictNoLimit(buf) ==
  LET h == HeaderEnd(buf)
      req == ParseRequest(buf)
  IN  IF h = 0 THEN IF Len(buf) > HeadLimit THEN "HEAD_TOO_LARGE" ELSE "more"
      ELSE IF h > HeadLimit THEN "HEAD_TOO_LARGE"
      ELSE IF req.method = "POST" /\ Len(buf) < RequestEnd(h, req.cl) THEN "more"
      ELSE "READY"

(* Mutant: a POST is taken to be complete with its header. *)
ReadVerdictEager(buf) ==
  LET h == HeaderEnd(buf) IN
  IF h = 0 THEN IF Len(buf) > HeadLimit THEN "HEAD_TOO_LARGE" ELSE "more"
  ELSE IF h > HeadLimit THEN "HEAD_TOO_LARGE"
  ELSE IF ParseRequest(buf).cl > BodyLimit THEN "BODY_TOO_LARGE"
  ELSE "READY"

(* What one iteration of the loop decides after it has appended a chunk. *)
ReadVerdict(buf) ==
  LET h == HeaderEnd(buf)
      req == ParseRequest(buf)
  IN  IF h = 0 THEN IF Len(buf) > HeadLimit THEN "HEAD_TOO_LARGE" ELSE "more"
      ELSE IF h > HeadLimit THEN "HEAD_TOO_LARGE"
      ELSE IF req.cl > BodyLimit THEN "BODY_TOO_LARGE"
      ELSE IF req.method = "POST" /\ Len(buf) < RequestEnd(h, req.cl) THEN "more"
      ELSE "READY"

(* How many units of the socket's queue in the call may take: all of it if *)
(* no prefix satisfies the loop; otherwise up to the end of the chunk, at  *)
(* most RecvMax long, that holds the first satisfying unit.                *)
ReadTakes(buf, in) ==
  LET stops == {n \in 1..Len(in) : ReadVerdict(buf \o SubSeq(in, 1, n)) # "more"}
  IN  IF stops = {} THEN {Len(in)}
      ELSE {n \in stops : \E m \in stops : n < m + RecvMax /\
                             \A k \in stops : m <= k}

(* Mutant: a drained socket is taken for a closed one. *)
ReadStateClosed(buf, in, n, gone) ==
  LET v == ReadVerdict(buf \o SubSeq(in, 1, n))
  IN  IF n > 0 /\ v # "more" THEN v ELSE "CLOSED"

(* The IOState after taking n units; gone: the peer has closed. *)
ReadState(buf, in, n, gone) ==
  LET v == ReadVerdict(buf \o SubSeq(in, 1, n))
  IN  IF n > 0 /\ v # "more" THEN v ELSE IF gone THEN "CLOSED" ELSE "AGAIN"

AfterRead(c, in, n) == [c EXCEPT !.rbuf = @ \o SubSeq(in, 1, n)]

-----------------------------------------------------------------------------
(* process(), the error responses, write() and reset_for_next_request().   *)

(* The request the buffer's front belongs to: the one a client takes the   *)
(* next response to answer.                                                *)
FrontReq(buf) == IF buf = <<>> THEN NoReq ELSE buf[1].req

(* Every handler builds one response and process() returns true; which     *)
(* page or status a route chooses does not matter here ("page").           *)
ProcessStatus(buf) ==
  LET h == HeaderEnd(buf)
      req == ParseRequest(buf)
      v == Validate(req)
  IN  IF v = "BadRequest" THEN "400"
      ELSE IF v = "NotAllowed" THEN "405"
      ELSE IF req.method = "POST" /\ Len(buf) < RequestEnd(h, req.cl) THEN "400"
      ELSE "page"

Process(c) ==
  [c EXCEPT !.ka = KeepAlive(ParseRequest(c.rbuf)),
            !.wbuf = [req |-> FrontReq(c.rbuf), status |-> ProcessStatus(c.rbuf)],
            !.sent = 0]

(* set_413_response() and set_431_response(), which force the close. *)
Refuse(c, status) ==
  [c EXCEPT !.ka = FALSE,
            !.wbuf = [req |-> FrontReq(c.rbuf), status |-> status],
            !.sent = 0]

(* write_buf_.size() *)
WriteLen(c) == IF c.wbuf = Nothing THEN 0 ELSE RespLen

(* The response units that move bytes_sent_ from c.sent to n. *)
Sent(c, n) ==
  [i \in 1..(n - c.sent) |-> [req |-> c.wbuf.req, part |-> c.sent + i]]

AfterWrite(c, n) == [c EXCEPT !.sent = n]

(* Mutant: the answered request stays in the buffer. *)
ResetForNextRequestKeep(c) ==
  [c EXCEPT !.wbuf = Nothing, !.sent = 0, !.ka = FALSE]

(* Mutant: all that has been read goes with the answered request. *)
ResetForNextRequestClear(c) ==
  [c EXCEPT !.rbuf = <<>>, !.wbuf = Nothing, !.sent = 0, !.ka = FALSE]

ResetForNextRequest(c) ==
  LET h == HeaderEnd(c.rbuf)
      end == RequestEnd(h, ExtractContentLength(c.rbuf, h))
  IN  [c EXCEPT !.rbuf = IF h = 0 THEN <<>>
                         ELSE SubSeq(@, (IF end < Len(@) THEN end ELSE Len(@)) + 1, Len(@)),
                !.wbuf = Nothing, !.sent = 0, !.ka = FALSE]
=============================================================================
