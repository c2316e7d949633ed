---------------------------- MODULE HttpSession ----------------------------
(***************************************************************************)
(* One connection served alone, with every kind of request: malformed,     *)
(* oversized, with a body that comes late or a Content-Length that is not  *)
(* the body's.  It is the framing of http/http_conn.cpp driven the way     *)
(* handle_read() and handle_write() of webserver/webserver.cpp drive it    *)
(* when each closure has finished before the next event is dispatched and  *)
(* a response is sent by one call of write().  WebServer has the other     *)
(* interleavings and the partial writes, on well-formed requests.          *)
(***************************************************************************)
EXTENDS HttpConn

CONSTANTS
  Scripts,    (* what the client may send: sequences of requests            *)
  MaxAnswers  (* bound of the model: a request whose end wraps around to    *)
              (* the start of its header is answered for ever               *)

(* In the code 4096 <= 8192 <= 1048576, far below 2^64. *)
ASSUME SessionAssumption ==
  /\ MaxAnswers \in Nat
  /\ Scripts \subseteq Seq(Req)
  /\ RecvMax <= HeadLimit /\ RecvMax <= BodyLimit
  /\ HeadLimit + RecvMax <= BodyLimit + 2
  /\ HeadLimit + BodyLimit + RecvMax < SizeMod

(* No client sends a request of 2^64 bytes. *)
ASSUME WireAssumption == \A r \in Req : Len(Wire(r)) < SizeMod

VARIABLES
  script,   (* the requests this client sends                               *)
  conn,     (* the entry of users_                                          *)
  reg,      (* registered for EPOLLIN or EPOLLOUT, with the closure of a    *)
            (* pipelined request queued ("pipe"), or closed                 *)
  inbox,    (* received and not yet read                                    *)
  pos,      (* the next request and unit the client sends                   *)
  peer,     (* whether the client has sent its FIN                          *)
  answers,  (* history: the responses sent, with their Connection header    *)
  derailed  (* history: a connection was kept after a request whose end     *)
            (* could not be found, see Derails                              *)

client == <<script, pos, peer>>
vars == <<client, conn, reg, inbox, answers, derailed>>

Answer == [req : Req \cup {NoReq}, status : Status, ka : BOOLEAN]

TypeOK ==
  /\ script \in Scripts
  /\ conn \in Conn
  /\ reg \in {"in", "out", "pipe", "closed"}
  /\ inbox \in Seq(Unit)
  /\ pos \in [req : Nat \ {0}, unit : Nat \ {0}]
  /\ peer \in {"open", "fin"}
  /\ answers \in Seq(Answer)
  /\ derailed \in BOOLEAN

(* After handle_accept(). *)
Init ==
  /\ script \in Scripts
  /\ \E s \in Sock : conn = InitConn(NewConn, s)
  /\ reg = "in"
  /\ inbox = <<>>
  /\ pos = [req |-> 1, unit |-> 1]
  /\ peer = "open"
  /\ answers = <<>>
  /\ derailed = FALSE

-----------------------------------------------------------------------------
(* The client sends when it likes, and may stop anywhere.                  *)

Send ==
  LET units == Wire(script[pos.req])
  IN  /\ peer = "open"
      /\ pos.req <= Len(script)
      /\ inbox' = Append(inbox, units[pos.unit])
      /\ pos' = IF pos.unit < Len(units) THEN [pos EXCEPT !.unit = @ + 1]
                ELSE [req |-> pos.req + 1, unit |-> 1]
      /\ UNCHANGED <<script, peer, conn, reg, answers, derailed>>

Fin ==
  /\ peer = "open"
  /\ peer' = "fin"
  /\ UNCHANGED <<script, pos, conn, reg, inbox, answers, derailed>>

-----------------------------------------------------------------------------
(* EPOLLRDHUP, which run() looks at first. *)
HandleHup ==
  /\ reg # "closed"
  /\ peer = "fin"
  /\ reg' = "closed"
  /\ UNCHANGED <<client, conn, inbox, answers, derailed>>

(* What the closure of handle_read() does with the state read_once() has   *)
(* returned.                                                               *)
AfterReadOnce(c, st) ==
  \/ /\ st = "CLOSED" /\ conn' = c /\ reg' = "closed"
  \/ /\ st = "AGAIN" /\ conn' = c /\ UNCHANGED reg
  \/ /\ st = "HEAD_TOO_LARGE" /\ conn' = Refuse(c, "431") /\ reg' = "out"
  \/ /\ st = "BODY_TOO_LARGE" /\ conn' = Refuse(c, "413") /\ reg' = "out"
  \/ /\ st = "READY" /\ conn' = Process(c) /\ reg' = "out"

HandleRead ==
  /\ reg = "in"
  /\ inbox # <<>> \/ peer = "fin"
  /\ \E n \in ReadTakes(conn.rbuf, inbox) :
       /\ AfterReadOnce(AfterRead(conn, inbox, n),
                        ReadState(conn.rbuf, inbox, n, peer = "fin"))
       /\ inbox' = SubSeq(inbox, n + 1, Len(inbox))
  /\ UNCHANGED <<client, answers, derailed>>

(* Where the request at the front of the buffer ends cannot be found: its  *)
(* header does not say it, or it is no POST, whose body read_once() waits  *)
(* for, and its body is late.                                              *)
Derails(buf) ==
  LET h == HeaderEnd(buf)
      r == Request[buf[h].req]
  IN  h = 0 \/ r.cl # r.body \/ (r.method # "POST" /\ Len(buf) < h + r.cl)

(* Mutant: a request that is in the buffer already is not looked for. *)
HandleWriteNoPipe ==
  /\ reg = "out"
  /\ Len(answers) < MaxAnswers
  /\ answers' = Append(answers, [req |-> conn.wbuf.req, status |-> conn.wbuf.status,
                                 ka |-> conn.ka])
  /\ IF conn.ka
     THEN /\ conn' = ResetForNextRequest(conn)
          /\ reg' = "in"
          /\ derailed' = (derailed \/ Derails(conn.rbuf))
     ELSE /\ reg' = "closed"
          /\ UNCHANGED <<conn, derailed>>
  /\ UNCHANGED <<client, inbox>>

HandleWrite ==
  /\ reg = "out"
  /\ Len(answers) < MaxAnswers
  /\ answers' = Append(answers, [req |-> conn.wbuf.req, status |-> conn.wbuf.status,
                                 ka |-> conn.ka])
  /\ IF conn.ka
     THEN /\ conn' = ResetForNextRequest(conn)
          /\ reg' = IF HasCompleteRequest(conn'.rbuf) THEN "pipe" ELSE "in"
          /\ derailed' = (derailed \/ Derails(conn.rbuf))
     ELSE /\ reg' = "closed"
          /\ UNCHANGED <<conn, derailed>>
  /\ UNCHANGED <<client, inbox>>

(* Mutant: the connection is armed for writing without a response. *)
RunPipeIdle ==
  /\ reg = "pipe"
  /\ reg' = "out"
  /\ UNCHANGED <<client, conn, inbox, answers, derailed>>

(* The closure that handle_write() queues goes to process() directly: no   *)
(* limit is tested on this path.                                           *)
RunPipe ==
  /\ reg = "pipe"
  /\ conn' = Process(conn)
  /\ reg' = "out"
  /\ UNCHANGED <<client, inbox, answers, derailed>>

ClientStep == Send \/ Fin

ServerStep == HandleHup \/ HandleRead \/ HandleWrite \/ RunPipe

Next == ClientStep \/ ServerStep

Spec == Init /\ [][Next]_vars

(* The event loop and the workers run; a client need not, but one that has *)
(* begun a request is taken to send it.                                    *)
FairSpec == Spec /\ WF_vars(ServerStep) /\ WF_vars(Send)

-----------------------------------------------------------------------------
(* What a client puts on the wire after the first k requests of its script. *)
WireFrom(k) == FlattenSeq([i \in 1..(Len(script) - k) |-> Wire(script[k + i])])

Unsent ==
  IF pos.req > Len(script) THEN <<>>
  ELSE LET units == Wire(script[pos.req])
       IN  SubSeq(units, pos.unit, Len(units)) \o WireFrom(pos.req)

(* Where requests begin in the stream is never lost: what is buffered, on  *)
(* the way and unsent is the client's stream after the answered requests.  *)
FramingKept ==
  ~derailed /\ reg # "closed" => conn.rbuf \o inbox \o Unsent = WireFrom(Len(answers))

(* What a request deserves, whatever segments it comes in. *)
Deserves(r) ==
  LET q == Request[r] IN
  IF q.parts + 1 > HeadLimit THEN "431"
  ELSE IF ~q.wf THEN "400"
  ELSE IF q.cl > BodyLimit THEN "413"
  ELSE CASE Validate(q) = "OK" -> "page"
         [] Validate(q) = "NotAllowed" -> "405"
         [] OTHER -> "400"

(* Its end is computed modulo 2^64, and lies in front of its body. *)
Wraps(r) == Request[r].parts + 1 + Request[r].cl >= SizeMod

(* The k-th response answers the k-th request and is the one it deserves,  *)
(* however the stream was cut into segments and however much of it was     *)
(* there when the answer was made; a request whose end wraps around is the *)
(* one exception, for only read_once() looks at the limits.                *)
AnswersTheScript ==
  ~derailed => \A k \in DOMAIN answers :
    /\ answers[k].req = script[k]
    /\ Wraps(script[k]) \/ answers[k].status = Deserves(script[k])

(* A body over BODYLIMIT is never processed, derailed or not, though a     *)
(* pipelined request passes no limit test; but for a length that wraps.    *)
LimitsHold ==
  \A k \in DOMAIN answers :
    answers[k].status = "page" =>
      Request[answers[k].req].cl <= BodyLimit \/ (k > 1 /\ Wraps(answers[k].req))

(* read_buf_ stays below the limits and one recv() more. *)
BufferBounded == Len(conn.rbuf) < HeadLimit + BodyLimit + RecvMax

(* The connection is closed on the client's FIN or behind a response that  *)
(* said "Connection: close", never in mid-stream.                          *)
CloseIsAnnounced ==
  [][reg # "closed" /\ reg' = "closed" =>
       peer = "fin" \/ (answers' # answers /\ ~Last(answers').ka)]_vars

(* Every request of a client that stays is answered, up to the one behind  *)
(* whose answer the server closes.                                         *)
ScriptAnswered ==
  (\A k \in DOMAIN script : Request[script[k]].body >= Request[script[k]].cl) ~>
    \/ peer = "fin" \/ derailed
    \/ Len(answers) = Len(script)
    \/ reg = "closed" /\ ~Last(answers).ka
=============================================================================
