----------------------------- MODULE WebServer -----------------------------
(***************************************************************************)
(* webserver/webserver.cpp: the epoll loop on the main thread, the tasks   *)
(* it queues for the worker threads, the connection table users_ they      *)
(* share under users_mutex_, and as much of the kernel (descriptors, epoll *)
(* registrations, sockets) and of the clients as the code depends on.      *)
(*                                                                         *)
(* A block that holds users_mutex_ is one action; each epoll_ctl(),        *)
(* enqueue() and accept() made outside it is an action of its own.  The    *)
(* thread pool is its abstract specification, TaskQueue, which ThreadPool  *)
(* is shown to implement; connection objects are those of HttpConn.        *)
(*                                                                         *)
(* A client is the connection it makes, so a client is also a socket.      *)
(* "fd" is a descriptor number, which the kernel gives to another client   *)
(* as soon as it is closed: the hazard most of the properties are about.   *)
(***************************************************************************)
EXTENDS HttpConn

CONSTANTS
  Fd,         (* descriptor numbers accept() can return                     *)
  ListenFd,   (* listenfd_                                                  *)
  Worker,     (* the pool's threads                                         *)
  MaxTasks,   (* the pool's queue limit, 10000 in the constructor           *)
  NoTask,     (* a worker's task when it has none                           *)
  NoConn,     (* fd has no entry in users_                                  *)
  Script,     (* the requests each client sends, in order                   *)
  Pipelining  (* whether clients send a request before the last is answered *)

ASSUME ServerAssumption ==
  /\ ListenFd \notin Fd
  /\ NoConn \notin Conn
  /\ MaxTasks \in Nat
  /\ Script \in [Sock -> Seq(Req)]
  /\ Pipelining \in BOOLEAN

(* The closures made by handle_read() and handle_write(): what they        *)
(* capture, and (history, not in the code) the socket fd stood for when    *)
(* they were made.                                                         *)
TaskRec == [kind : {"read", "pipe"}, fd : Fd, gen : Nat, sock : Sock \cup {NoSock}]

ASSUME TaskAssumption == NoTask \notin TaskRec

VARIABLES
  (* kernel *)
  file,       (* the socket behind each descriptor, or NoSock               *)
  interest,   (* what each descriptor is registered for in the epoll set    *)
  backlog,    (* clients that accept() has not returned yet                 *)
  inbox,      (* units received by each socket and not yet read             *)
  closed,     (* sockets the server has closed                              *)
  (* clients *)
  peer,       (* whether each client has connected, or sent its FIN         *)
  pos,        (* the request and the unit of it each client sends next      *)
  outbox,     (* response units sent to each client                         *)
  (* server *)
  users,      (* users_                                                     *)
  lastActive, (* last_active_: older than the idle limit or not             *)
  tasks,      (* the pool's queue                                           *)
  wtask,      (* the task each worker runs                                  *)
  wpc,        (* where in it the worker is                                  *)
  mpc,        (* where the main thread is                                   *)
  cur,        (* the main thread's fd and gen inside a handler              *)
  events,     (* the part of events_ that is not dispatched yet             *)
  toclose     (* to_close of handle_timeout()                               *)

kernel == <<file, interest>>
net == <<backlog, inbox, closed, peer, pos, outbox>>
conns == <<users, lastActive>>
pool == <<tasks, wtask, wpc>>
main == <<mpc, cur, events, toclose>>
vars == <<kernel, net, conns, pool, main>>

Pool == INSTANCE TaskQueue
          WITH Task <- TaskRec, running <- wtask, stopping <- FALSE

Event == {"hup", "in", "out"}

KernelOK ==
  /\ file \in [Fd -> Sock \cup {NoSock}]
  /\ interest \in [Fd -> {"none", "in", "out"}]

NetOK ==
  /\ backlog \subseteq Sock
  /\ inbox \in [Sock -> Seq(Unit)]
  /\ closed \subseteq Sock
  /\ peer \in [Sock -> {"new", "open", "fin"}]
  /\ pos \in [Sock -> [req : Nat \ {0}, unit : Nat \ {0}]]
  /\ outbox \in [Sock -> Seq([req : Req \cup {NoReq}, part : Nat])]

ConnsOK ==
  /\ users \in [Fd -> Conn \cup {NoConn}]
  /\ lastActive \in [Fd -> {"none", "fresh", "stale"}]

PoolOK ==
  /\ tasks \in Seq(TaskRec)
  /\ wtask \in [Worker -> TaskRec \cup {NoTask}]
  /\ wpc \in [Worker -> {"idle", "run", "arm", "del", "erase"}]

MainOK ==
  /\ mpc \in {"loop", "timeout", "accept", "insert", "enqueue", "arm", "del", "erase"}
  /\ cur \in TaskRec \cup {NoTask}
  /\ events \subseteq (Fd \cup {ListenFd}) \X Event
  /\ toclose \subseteq Fd

TypeOK == KernelOK /\ NetOK /\ ConnsOK /\ PoolOK /\ MainOK

(* After event_listen(): the listening socket is registered and the main   *)
(* thread enters run().                                                    *)
Init ==
  /\ file = [f \in Fd |-> NoSock]
  /\ interest = [f \in Fd |-> "none"]
  /\ backlog = {}
  /\ inbox = [c \in Sock |-> <<>>]
  /\ closed = {}
  /\ peer = [c \in Sock |-> "new"]
  /\ pos = [c \in Sock |-> [req |-> 1, unit |-> 1]]
  /\ outbox = [c \in Sock |-> <<>>]
  /\ users = [f \in Fd |-> NoConn]
  /\ lastActive = [f \in Fd |-> "none"]
  /\ tasks = <<>>
  /\ wtask = [w \in Worker |-> NoTask]
  /\ wpc = [w \in Worker |-> "idle"]
  /\ mpc = "loop"
  /\ cur = NoTask
  /\ events = {}
  /\ toclose = {}

-----------------------------------------------------------------------------
(* Clients.  Each connects once, sends the units of its script in order    *)
(* and may send its FIN at any moment.                                     *)

(* How many whole requests of its script client c has sent. *)
RequestsSent(c) == pos[c].req - 1

(* The server has sent n whole responses to c. *)
Answered(c, n) == Len(outbox[c]) >= n * RespLen

Connect(c) ==
  /\ peer[c] = "new"
  /\ peer' = [peer EXCEPT ![c] = "open"]
  /\ backlog' = backlog \cup {c}
  /\ UNCHANGED <<kernel, inbox, closed, pos, outbox, conns, pool, main>>

Send(c) ==
  LET p == pos[c]
      units == Wire(Script[c][p.req])
  IN  /\ peer[c] = "open"
      /\ c \notin closed
      /\ p.req <= Len(Script[c])
      /\ Pipelining \/ Answered(c, RequestsSent(c))
      /\ inbox' = [inbox EXCEPT ![c] = Append(@, units[p.unit])]
      /\ pos' = [pos EXCEPT ![c] = IF p.unit < Len(units)
                                  THEN [req |-> p.req, unit |-> p.unit + 1]
                                  ELSE [req |-> p.req + 1, unit |-> 1]]
      /\ UNCHANGED <<kernel, backlog, closed, peer, outbox, conns, pool, main>>

HalfClose(c) ==
  /\ peer[c] = "open"
  /\ peer' = [peer EXCEPT ![c] = "fin"]
  /\ UNCHANGED <<kernel, backlog, inbox, closed, pos, outbox, conns, pool, main>>

(* Time passes: a connection has been idle for longer than the limit. *)
Idle(f) ==
  /\ lastActive[f] = "fresh"
  /\ lastActive' = [lastActive EXCEPT ![f] = "stale"]
  /\ UNCHANGED <<kernel, net, users, pool, main>>

-----------------------------------------------------------------------------
(* The two halves of close_conn(), and modfd().                            *)

(* EPOLL_CTL_DEL, before the lock: whatever fd stands for by now. *)
Deregister(f) == interest' = [interest EXCEPT ![f] = "none"]

(* Mutant: the object is closed even if users_ has no entry for it. *)
EraseConnTwice(f) ==
  /\ lastActive' = [lastActive EXCEPT ![f] = "none"]
  /\ users' = [users EXCEPT ![f] = NoConn]
  /\ file' = [file EXCEPT ![f] = NoSock]
  /\ interest' = [interest EXCEPT ![f] = "none"]
  /\ closed' = closed \cup {file[f]}
  /\ UNCHANGED <<inbox, backlog, peer, pos, outbox>>

(* Mutant: the entry stays in users_ after its descriptor is closed. *)
EraseConnKeep(f) ==
  /\ lastActive' = [lastActive EXCEPT ![f] = "none"]
  /\ users[f] # NoConn /\ file[f] # NoSock
  /\ file' = [file EXCEPT ![f] = NoSock]
  /\ interest' = [interest EXCEPT ![f] = "none"]
  /\ closed' = closed \cup {file[f]}
  /\ UNCHANGED <<users, inbox, backlog, peer, pos, outbox>>

(* Mutant: the entry is erased and its descriptor left open. *)
EraseConnLeak(f) ==
  /\ lastActive' = [lastActive EXCEPT ![f] = "none"]
  /\ users' = [users EXCEPT ![f] = NoConn]
  /\ UNCHANGED <<file, interest, closed, inbox, backlog, peer, pos, outbox>>

(* The block under users_mutex_.  Closing a descriptor also takes it out   *)
(* of the epoll set.                                                       *)
EraseConn(f) ==
  /\ lastActive' = [lastActive EXCEPT ![f] = "none"]
  /\ users' = [users EXCEPT ![f] = NoConn]
  /\ IF users[f] # NoConn
     THEN /\ file' = [file EXCEPT ![f] = NoSock]
          /\ interest' = [interest EXCEPT ![f] = "none"]
          /\ closed' = closed \cup {file[f]}
          /\ inbox' = [inbox EXCEPT ![file[f]] = <<>>]
     ELSE UNCHANGED <<file, interest, closed, inbox>>
  /\ UNCHANGED <<backlog, peer, pos, outbox>>

(* EPOLL_CTL_MOD fails on a descriptor that is not registered. *)
ModFd(f, ev) ==
  interest' = IF interest[f] = "none" THEN interest
              ELSE [interest EXCEPT ![f] = ev]

(* The time of the call, under the lock that found the connection. *)
Touch(f) == lastActive' = [lastActive EXCEPT ![f] = "fresh"]

(* The main thread's locals in a handler for f. *)
Local(k, f, g) == [kind |-> k, fd |-> f, gen |-> g, sock |-> file[f]]

-----------------------------------------------------------------------------
(* run(): epoll_wait(), handle_timeout(), then one handler per event.      *)

(* Registrations are level triggered: what is ready stays ready.           *)
(* EPOLLRDHUP is reported whichever way a descriptor is registered.  Each  *)
(* event is listed as the branch run() takes for it.  A socket's send      *)
(* buffer is taken never to stay full.                                     *)
Ready ==
  {<<f, "hup">> : f \in {x \in Fd : interest[x] # "none" /\ peer[file[x]] = "fin"}}
  \cup {<<f, "in">> : f \in {x \in Fd : /\ interest[x] = "in"
                                        /\ peer[file[x]] # "fin"
                                        /\ inbox[file[x]] # <<>>}}
  \cup {<<f, "out">> : f \in {x \in Fd : interest[x] = "out" /\ peer[file[x]] # "fin"}}
  \cup (IF backlog # {} THEN {<<ListenFd, "in">>} ELSE {})

(* Mutant: epoll_wait() is given no timeout. *)
EpollWaitForever ==
  /\ mpc = "loop"
  /\ events = {} /\ toclose = {}
  /\ Ready # {}
  /\ events' = Ready
  /\ mpc' = "timeout"
  /\ UNCHANGED <<kernel, net, conns, pool, cur, toclose>>

EpollWait ==
  /\ mpc = "loop"
  /\ events = {} /\ toclose = {}
  /\ events' = Ready
  /\ mpc' = "timeout"
  /\ UNCHANGED <<kernel, net, conns, pool, cur, toclose>>

(* handle_timeout(), first half: the snapshot taken under the lock. *)
HandleTimeout ==
  /\ mpc = "timeout"
  /\ toclose' = {f \in Fd : lastActive[f] = "stale"}
  /\ mpc' = "loop"
  /\ UNCHANGED <<kernel, net, conns, pool, cur, events>>

(* handle_timeout(), second half: close_conn() for each descriptor of the  *)
(* snapshot, whatever has happened to it since.                            *)
SweepClose(f) ==
  /\ mpc = "loop"
  /\ f \in toclose
  /\ toclose' = toclose \ {f}
  /\ Deregister(f)
  /\ cur' = Local("read", f, 0)
  /\ mpc' = "erase"
  /\ UNCHANGED <<file, net, conns, pool, events>>

(* Take one event from the batch; the sweep comes first. *)
Dispatch(f, ev) ==
  /\ mpc = "loop"
  /\ toclose = {}
  /\ <<f, ev>> \in events
  /\ events' = events \ {<<f, ev>>}
  /\ UNCHANGED toclose

HandleHup(f) ==
  /\ Dispatch(f, "hup")
  /\ Deregister(f)
  /\ cur' = Local("read", f, 0)
  /\ mpc' = "erase"
  /\ UNCHANGED <<file, net, conns, pool>>

BeginAccept ==
  /\ Dispatch(ListenFd, "in")
  /\ mpc' = "accept"
  /\ UNCHANGED <<kernel, net, conns, pool, cur>>

-----------------------------------------------------------------------------
(* handle_accept()                                                         *)

FreeFd == {f \in Fd : file[f] = NoSock}

(* accept() returns f and the EPOLL_CTL_ADD succeeds. *)
AcceptAdd(c, f) ==
  /\ mpc = "accept"
  /\ c \in backlog
  /\ f \in FreeFd
  /\ backlog' = backlog \ {c}
  /\ file' = [file EXCEPT ![f] = c]
  /\ interest' = [interest EXCEPT ![f] = "in"]
  /\ cur' = [kind |-> "read", fd |-> f, gen |-> 0, sock |-> c]
  /\ mpc' = "insert"
  /\ UNCHANGED <<inbox, closed, peer, pos, outbox, conns, pool, events, toclose>>

(* The EPOLL_CTL_ADD fails and the descriptor is closed at once. *)
AcceptDrop(c) ==
  /\ mpc = "accept"
  /\ c \in backlog
  /\ FreeFd # {}
  /\ backlog' = backlog \ {c}
  /\ closed' = closed \cup {c}
  /\ inbox' = [inbox EXCEPT ![c] = <<>>]
  /\ UNCHANGED <<kernel, peer, pos, outbox, conns, pool, main>>

(* users_[clfd].init(clfd): an entry left behind would be reused. *)
InsertUser ==
  /\ mpc = "insert"
  /\ LET f == cur.fd IN
       /\ users' = [users EXCEPT ![f] = InitConn(IF @ = NoConn THEN NewConn ELSE @, file[f])]
       /\ Touch(f)
  /\ mpc' = "accept"
  /\ cur' = NoTask
  /\ UNCHANGED <<kernel, net, pool, events, toclose>>

(* EAGAIN, or no descriptor left. *)
AcceptEnd ==
  /\ mpc = "accept"
  /\ backlog = {} \/ FreeFd = {}
  /\ mpc' = "loop"
  /\ UNCHANGED <<kernel, net, conns, pool, cur, events, toclose>>

-----------------------------------------------------------------------------
(* handle_read() and handle_write() on the main thread.                    *)

(* Both return when the connection has been closed since epoll_wait(). *)
HandleGone(f) ==
  /\ Dispatch(f, "in") \/ Dispatch(f, "out")
  /\ users[f] = NoConn
  /\ UNCHANGED <<kernel, net, conns, pool, mpc, cur>>

HandleRead(f) ==
  /\ Dispatch(f, "in")
  /\ users[f] # NoConn
  /\ cur' = Local("read", f, users[f].gen)
  /\ mpc' = "enqueue"
  /\ UNCHANGED <<kernel, net, conns, pool>>

(* pool_.enqueue() of either closure, after the lock is released. *)
EnqueueTask ==
  /\ mpc = "enqueue"
  /\ Pool!Accept(cur)
  /\ mpc' = "loop"
  /\ cur' = NoTask
  /\ UNCHANGED <<kernel, net, conns, wpc, events, toclose>>

EnqueueFails ==
  /\ mpc = "enqueue"
  /\ ~Pool!HasRoom
  /\ mpc' = "del"
  /\ UNCHANGED <<kernel, net, conns, pool, cur, events, toclose>>

(* The block under the lock in handle_write(), for an existing connection: *)
(* write() moves bytes_sent_ to n.                                         *)
WriteBlock(f, n) ==
  /\ Dispatch(f, "out")
  /\ users[f] # NoConn
  /\ Touch(f)
  /\ outbox' = [outbox EXCEPT ![file[f]] = @ \o Sent(users[f], n)]
  /\ UNCHANGED <<kernel, backlog, inbox, closed, peer, pos, pool>>

(* write() returns AGAIN: a later EPOLLOUT continues. *)
HandleWriteAgain(f) ==
  \E n \in users[f].sent + 1 .. WriteLen(users[f]) - 1 :
    /\ WriteBlock(f, n)
    /\ users' = [users EXCEPT ![f] = AfterWrite(@, n)]
    /\ UNCHANGED <<mpc, cur>>

(* write() returns ERROR.  The SIGPIPE that send() can raise instead is    *)
(* not modelled.                                                           *)
HandleWriteError(f) ==
  /\ WriteBlock(f, users[f].sent)
  /\ users[f].sent < WriteLen(users[f])
  /\ peer[file[f]] = "fin"
  /\ cur' = Local("read", f, 0)
  /\ mpc' = "del"
  /\ UNCHANGED users

(* write() returns READY: the response is out.  A kept-alive connection    *)
(* goes on with the request already in its buffer, or waits to be read.    *)
HandleWriteReady(f) ==
  LET next == ResetForNextRequest(users[f]) IN
  /\ WriteBlock(f, WriteLen(users[f]))
  /\ \/ /\ users[f].ka
        /\ users' = [users EXCEPT ![f] = next]
        /\ \/ /\ HasCompleteRequest(next.rbuf)
              /\ cur' = Local("pipe", f, next.gen)
              /\ mpc' = "enqueue"
           \/ /\ ~HasCompleteRequest(next.rbuf)
              /\ cur' = Local("read", f, 0)
              /\ mpc' = "arm"
     \/ /\ ~users[f].ka
        /\ users' = [users EXCEPT ![f] = AfterWrite(@, WriteLen(@))]
        /\ cur' = Local("read", f, 0)
        /\ mpc' = "del"

HandleWrite(f) ==
  /\ users[f] # NoConn
  /\ HandleWriteAgain(f) \/ HandleWriteError(f) \/ HandleWriteReady(f)

(* The last lines of handle_write(). *)
ArmRead ==
  /\ mpc = "arm"
  /\ ModFd(cur.fd, "in")
  /\ mpc' = "loop"
  /\ cur' = NoTask
  /\ UNCHANGED <<file, net, conns, pool, events, toclose>>

(* close_conn() called by a handler. *)
MainDel ==
  /\ mpc = "del"
  /\ Deregister(cur.fd)
  /\ mpc' = "erase"
  /\ UNCHANGED <<file, net, conns, pool, cur, events, toclose>>

MainErase ==
  /\ mpc = "erase"
  /\ EraseConn(cur.fd)
  /\ mpc' = "loop"
  /\ cur' = NoTask
  /\ UNCHANGED <<pool, events, toclose>>

-----------------------------------------------------------------------------
(* The closures, on the worker threads.                                    *)

StartTask(w) ==
  /\ Pool!Start(w)
  /\ wpc' = [wpc EXCEPT ![w] = "run"]
  /\ UNCHANGED <<kernel, net, conns, main>>

EndTask(w) ==
  /\ Pool!Finish(w)
  /\ wpc' = [wpc EXCEPT ![w] = "idle"]

GoTo(w, pc) ==
  /\ wpc' = [wpc EXCEPT ![w] = pc]
  /\ UNCHANGED <<tasks, wtask>>

(* The connection the closure finds under its descriptor passes its check. *)
Current(t) == users[t.fd] # NoConn /\ users[t.fd].gen = t.gen

(* Mutant: last_active_ is written before the entry is looked up. *)
RunStaleTouch(w) ==
  /\ wpc[w] = "run"
  /\ ~Current(wtask[w])
  /\ Touch(wtask[w].fd)
  /\ EndTask(w)
  /\ UNCHANGED <<kernel, net, users, main>>

RunStale(w) ==
  /\ wpc[w] = "run"
  /\ ~Current(wtask[w])
  /\ EndTask(w)
  /\ UNCHANGED <<kernel, net, conns, main>>

(* The block under the lock in handle_read()'s closure, and its return if  *)
(* there is nothing more to do.                                            *)
RunRead(w) ==
  /\ wpc[w] = "run"
  /\ wtask[w].kind = "read"
  /\ Current(wtask[w])
  /\ LET f == wtask[w].fd
         in == inbox[file[f]]
     IN  /\ Touch(f)
         /\ \E n \in ReadTakes(users[f].rbuf, in) :
              LET st == ReadState(users[f].rbuf, in, n, peer[file[f]] = "fin")
                  c == AfterRead(users[f], in, n)
              IN  /\ inbox' = [inbox EXCEPT ![file[f]] = SubSeq(@, n + 1, Len(@))]
                  /\ users' = [users EXCEPT ![f] =
                       CASE st = "READY" -> Process(c)
                         [] st = "HEAD_TOO_LARGE" -> Refuse(c, "431")
                         [] st = "BODY_TOO_LARGE" -> Refuse(c, "413")
                         [] OTHER -> c]
                  /\ CASE st = "AGAIN" -> EndTask(w)
                       [] st = "CLOSED" -> GoTo(w, "del")
                       [] OTHER -> GoTo(w, "arm")
  /\ UNCHANGED <<kernel, backlog, closed, peer, pos, outbox, main>>

(* The block under the lock in handle_write()'s closure. *)
RunPipe(w) ==
  /\ wpc[w] = "run"
  /\ wtask[w].kind = "pipe"
  /\ Current(wtask[w])
  /\ LET f == wtask[w].fd IN
       /\ Touch(f)
       /\ users' = [users EXCEPT ![f] = Process(@)]
  /\ GoTo(w, "arm")
  /\ UNCHANGED <<kernel, net, main>>

(* Mutant: the closure ends without its modfd(). *)
ArmWriteNot(w) ==
  /\ wpc[w] = "arm"
  /\ EndTask(w)
  /\ UNCHANGED <<kernel, net, conns, main>>

(* After the lock is released: modfd(), or the two halves of close_conn(). *)
ArmWrite(w) ==
  /\ wpc[w] = "arm"
  /\ ModFd(wtask[w].fd, "out")
  /\ EndTask(w)
  /\ UNCHANGED <<file, net, conns, main>>

WorkerDel(w) ==
  /\ wpc[w] = "del"
  /\ Deregister(wtask[w].fd)
  /\ GoTo(w, "erase")
  /\ UNCHANGED <<file, net, conns, main>>

WorkerErase(w) ==
  /\ wpc[w] = "erase"
  /\ EraseConn(wtask[w].fd)
  /\ EndTask(w)
  /\ UNCHANGED main

-----------------------------------------------------------------------------
ClientStep(c) == Connect(c) \/ Send(c) \/ HalfClose(c)

Closing ==
  \/ \E f \in Fd : SweepClose(f) \/ HandleHup(f)
  \/ MainDel
  \/ MainErase

Accepting ==
  \/ BeginAccept
  \/ \E c \in Sock : AcceptDrop(c) \/ \E f \in Fd : AcceptAdd(c, f)
  \/ InsertUser
  \/ AcceptEnd

Serving ==
  \/ \E f \in Fd : HandleGone(f) \/ HandleRead(f) \/ HandleWrite(f)
  \/ EnqueueTask
  \/ EnqueueFails
  \/ ArmRead

MainStep == EpollWait \/ HandleTimeout \/ Closing \/ Accepting \/ Serving

WorkerStep(w) ==
  \/ StartTask(w)
  \/ RunStale(w) \/ RunRead(w) \/ RunPipe(w)
  \/ ArmWrite(w)
  \/ WorkerDel(w) \/ WorkerErase(w)

Next ==
  \/ \E c \in Sock : ClientStep(c)
  \/ \E f \in Fd : Idle(f)
  \/ MainStep
  \/ \E w \in Worker : WorkerStep(w)

Spec == Init /\ [][Next]_vars

(* The operating system runs every thread, and epoll_wait() returns at     *)
(* least once a second, so the loop never rests.                           *)
Threads ==
  /\ WF_vars(MainStep)
  /\ \A w \in Worker : WF_vars(WorkerStep(w))

(* A connection on which nothing happens becomes idle. *)
Clock == \A f \in Fd : WF_vars(Idle(f))

FairSpec == Spec /\ Threads
TimedSpec == Spec /\ Threads /\ Clock

-----------------------------------------------------------------------------
(* Ownership of descriptors and of the connection table.                   *)

(* An entry of users_ always stands for the socket that is open under its  *)
(* descriptor: neither a close that comes too late nor a descriptor handed *)
(* out again leaves an entry bound to another client's socket, so a        *)
(* response is never written to a socket it was not made for.              *)
OwnsFd == \A f \in Fd : users[f] # NoConn => file[f] = users[f].sock

(* No descriptor leaks: one that is open has an entry in users_ through    *)
(* which it will be closed, or is being inserted by handle_accept().       *)
NoFdLeak ==
  \A f \in Fd : file[f] # NoSock =>
    users[f] # NoConn \/ (mpc = "insert" /\ cur.fd = f)

(* The two tables stay in step: an entry of users_ has an idle clock, so   *)
(* handle_timeout() can find it, and no clock outlives its entry, for it   *)
(* would time out the descriptor's next client.                            *)
IdleClockInSync == \A f \in Fd : lastActive[f] # "none" <=> users[f] # NoConn

(* What a client has received is the responses to its own requests, each   *)
(* whole, once and in order, however reads, partial writes, duplicate read *)
(* tasks and reuse of its descriptor interleave.  The code keeps this for  *)
(* clients that wait for each answer, and breaks it for those that do not, *)
(* for whom "supports pipelining" (http-server-v1/README.md:58) says it.   *)
StreamIntegrity ==
  \A c \in Sock : \A i \in DOMAIN outbox[c] :
    LET k == ((i - 1) \div RespLen) + 1 IN
    /\ k <= Len(Script[c])
    /\ outbox[c][i] = [req |-> Script[c][k], part |-> ((i - 1) % RespLen) + 1]

-----------------------------------------------------------------------------
(* Liveness.                                                               *)

(* Every client that connects is accepted in the end and its socket closed *)
(* in the end: what the event loop and the workers fail to close (a client *)
(* that stays silent, a registration lost to a late EPOLL_CTL_DEL) the     *)
(* sweep of idle connections closes.                                       *)
EveryConnectionEnds == \A c \in Sock : peer[c] # "new" ~> c \in closed

(* The first request of a connection, once it has arrived whole, is        *)
(* answered or its connection closed by the threads alone, without waiting *)
(* for the idle sweep: duplicate read closures, a full queue and pipelined *)
(* requests behind it do not make the server lose sight of it.             *)
FirstRequestServed ==
  \A c \in Sock : RequestsSent(c) >= 1 ~> Answered(c, 1) \/ c \in closed

-----------------------------------------------------------------------------
(* What comments and documentation of the code say.                        *)

(* "fd has been reused by a new connection" (webserver.cpp:197,214,321):   *)
(* the generation check keeps a closure from running on a connection that  *)
(* took over its descriptor.                                               *)
TaskForOwnConnection ==
  \A w \in Worker : wpc[w] = "run" /\ Current(wtask[w]) =>
    users[wtask[w].fd].sock = wtask[w].sock

(* "supports pipelining" (http-server-v1/README.md:58): a connection that  *)
(* is closed because its response is out has no whole request left         *)
(* unanswered in its buffer.                                               *)
NoRequestDropped ==
  [][\A f \in Fd :
       (mpc = "loop" /\ mpc' = "del" /\ cur'.fd = f /\ peer[file[f]] = "open") =>
         ~HasCompleteRequest(users'[f].rbuf)]_vars

(* "two requests in one connection should yield two responses"             *)
(* (scripts/smoke.sh:170): every request of a connection that has arrived  *)
(* whole is answered or its connection closed by the threads alone; none   *)
(* is left to the idle sweep.                                              *)
RequestServed ==
  \A c \in Sock : \A k \in DOMAIN Script[c] :
    RequestsSent(c) >= k ~> Answered(c, k) \/ c \in closed
=============================================================================
