--------------------------- MODULE WebServer_proofs ---------------------------
(***************************************************************************)
(* Proofs about WebServer, for every set of descriptors, clients, workers, *)
(* requests and every limit: its type invariant, the ownership of          *)
(* descriptors, connection objects and idle clocks; and for clients that   *)
(* wait for their answers, that each receives its own, whole and in order. *)
(***************************************************************************)
EXTENDS WebServer, HttpConn_proofs

(* Who is inside a handler has its locals, and who runs a closure has it. *)
HasLocals ==
  /\ mpc \in {"insert", "enqueue", "arm", "del", "erase"} => cur \in TaskRec
  /\ \A w \in Worker : wpc[w] # "idle" => wtask[w] \in TaskRec

(* A connection object in users_ is bound to a socket. *)
BoundConns == \A f \in Fd : users[f] # NoConn => users[f].sock \in Sock

(* Between accept() and the insertion into users_, the descriptor is open  *)
(* and has no entry: whoever closed it last had erased the entry first.    *)
InsertsFresh ==
  mpc = "insert" => file[cur.fd] \in Sock /\ users[cur.fd] = NoConn

(* A client's position is inside its script, or past its end. *)
SendsScript ==
  \A c \in Sock : pos[c].req <= Len(Script[c]) =>
    pos[c].unit <= Len(Wire(Script[c][pos[c].req]))

(* What each thread's own state, and the tables they share, satisfy: the   *)
(* inductive invariant.                                                    *)
Typed == TypeOK /\ SendsScript /\ HasLocals

Tables == BoundConns /\ InsertsFresh /\ OwnsFd /\ NoFdLeak /\ IdleClockInSync

ServerInv == Typed /\ Tables

-----------------------------------------------------------------------------
(* The type of the variables, one step per action. *)

LEMMA TypeInit == Init => TypeOK
  <1> SUFFICES ASSUME Init PROVE TypeOK
    OBVIOUS
  <1>1. \A S : <<>> \in Seq(S)
    OBVIOUS
  <1>2. inbox \in [Sock -> Seq(Unit)] /\ tasks \in Seq(TaskRec)
    BY <1>1 DEF Init
  <1>3. outbox \in [Sock -> Seq([req : Req \cup {NoReq}, part : Nat])]
    BY <1>1 DEF Init
  <1>4. pos \in [Sock -> [req : Nat \ {0}, unit : Nat \ {0}]]
    BY DEF Init
  <1> QED BY <1>2, <1>3, <1>4, Zenon DEF Init, TypeOK, KernelOK, NetOK, ConnsOK, PoolOK, MainOK

(* Unchanged variables keep their types. *)
LEMMA TypeKept ==
  /\ KernelOK /\ UNCHANGED kernel => KernelOK'
  /\ NetOK /\ UNCHANGED net => NetOK'
  /\ ConnsOK /\ UNCHANGED conns => ConnsOK'
  /\ PoolOK /\ UNCHANGED pool => PoolOK'
  /\ MainOK /\ UNCHANGED main => MainOK'
  BY DEF KernelOK, NetOK, ConnsOK, PoolOK, MainOK, kernel, net, conns, pool, main

LEMMA LocalType ==
  ASSUME KernelOK, NEW k \in {"read", "pipe"}, NEW f \in Fd, NEW g \in Nat
  PROVE  Local(k, f, g) \in TaskRec
  BY DEF KernelOK, Local, TaskRec

(* epoll_wait() reports registered descriptors only. *)
LEMMA ReadyType == Ready \subseteq (Fd \cup {ListenFd}) \X Event
  BY DEF Ready, Event

LEMMA RegisterType ==
  ASSUME KernelOK, NEW f, NEW ev \in {"in", "out"},
         UNCHANGED file, Deregister(f) \/ ModFd(f, ev)
  PROVE  KernelOK'
  BY DEF KernelOK, Deregister, ModFd

(* A connection object is bound to the socket its descriptor is open on,   *)
(* so what is closed under users_mutex_ is a socket.                       *)
LEMMA EraseType ==
  ASSUME KernelOK, NetOK, ConnsOK, OwnsFd, BoundConns, NEW f \in Fd, EraseConn(f)
  PROVE  KernelOK' /\ NetOK' /\ ConnsOK'
  <1>1. users' \in [Fd -> Conn \cup {NoConn}]
        /\ lastActive' \in [Fd -> {"none", "fresh", "stale"}]
    BY DEF ConnsOK, EraseConn
  <1>2. CASE users[f] = NoConn
    <2>1. UNCHANGED <<kernel, net>>
      BY <1>2 DEF EraseConn, kernel, net
    <2> QED BY <1>1, <2>1, TypeKept DEF ConnsOK
  <1>3. CASE users[f] # NoConn
    <2>1. file[f] \in Sock
      BY <1>3 DEF OwnsFd, BoundConns
    <2>2. KernelOK'
      BY <1>3 DEF EraseConn, KernelOK
    <2>3. \A S : <<>> \in Seq(S)
      OBVIOUS
    <2>4. inbox' \in [Sock -> Seq(Unit)]
      <3>1. inbox \in [Sock -> Seq(Unit)]
        BY DEF NetOK
      <3>2. inbox' = [inbox EXCEPT ![file[f]] = <<>>]
        BY <1>3 DEF EraseConn
      <3> QED BY <2>3, <3>1, <3>2
    <2>5. closed' \subseteq Sock
      BY <1>3, <2>1 DEF EraseConn, NetOK
    <2>6. NetOK'
      BY <2>4, <2>5 DEF EraseConn, NetOK
    <2> QED BY <1>1, <2>2, <2>6 DEF ConnsOK
  <1> QED BY <1>2, <1>3

-----------------------------------------------------------------------------
(* The clients' actions. *)

LEMMA ClientTypes ==
  ASSUME TypeOK, SendsScript, NEW c \in Sock, ClientStep(c)
  PROVE  TypeOK' /\ SendsScript'
  <1> USE DEF TypeOK
  <1>1. CASE Connect(c)
    <2>1. NetOK'
      BY <1>1 DEF Connect, NetOK
    <2> QED BY <1>1, <2>1, TypeKept DEF Connect, SendsScript
  <1>2. CASE HalfClose(c)
    <2>1. NetOK'
      BY <1>2 DEF HalfClose, NetOK
    <2> QED BY <1>2, <2>1, TypeKept DEF HalfClose, SendsScript
  <1>3. CASE Send(c)
    <2> DEFINE p == pos[c]
               units == Wire(Script[c][p.req])
               next == IF p.unit < Len(units)
                       THEN [req |-> p.req, unit |-> p.unit + 1]
                       ELSE [req |-> p.req + 1, unit |-> 1]
    <2>1. p.req \in Nat \ {0} /\ p.unit \in Nat \ {0} /\ p.req <= Len(Script[c])
      BY <1>3 DEF NetOK, Send
    <2>2. \A k \in 1..Len(Script[c]) : Script[c][k] \in Req
      BY ServerAssumption
    <2>3. units \in Seq(Unit) /\ Len(units) \in Nat \ {0}
      BY <2>1, <2>2, WireType
    <2>4. p.unit <= Len(units)
      BY <2>1 DEF SendsScript
    <2>5. units[p.unit] \in Unit
      <3> HIDE DEF units, p
      <3> QED BY <2>1, <2>3, <2>4
    <2>6. inbox' \in [Sock -> Seq(Unit)]
      <3>1. inbox' = [inbox EXCEPT ![c] = Append(@, units[p.unit])]
        BY <1>3 DEF Send
      <3> HIDE DEF units, p
      <3> QED BY <2>5, <3>1 DEF NetOK
    <2>7. pos' = [pos EXCEPT ![c] = next]
      BY <1>3 DEF Send
    <2>8. next \in [req : Nat \ {0}, unit : Nat \ {0}]
      BY <2>1
    <2>9. next.req <= Len(Script[c]) => next.unit <= Len(Wire(Script[c][next.req]))
      <3>1. CASE p.unit < Len(units)
        BY <2>1, <2>3, <3>1
      <3>2. CASE ~(p.unit < Len(units))
        <4>1. next.req = p.req + 1 /\ next.unit = 1
          BY <3>2
        <4>2. next.req <= Len(Script[c]) => Script[c][next.req] \in Req
          BY <2>1, <2>2, <4>1
        <4> QED BY <4>1, <4>2, WireType
      <3> QED BY <3>1, <3>2
    <2> HIDE DEF next
    <2>10. NetOK'
      <3>1. UNCHANGED <<backlog, closed, peer, outbox>>
        BY <1>3 DEF Send
      <3> HIDE DEF units, p
      <3>2. pos' \in [Sock -> [req : Nat \ {0}, unit : Nat \ {0}]]
        BY <2>7, <2>8 DEF NetOK
      <3> QED BY <2>6, <3>1, <3>2 DEF NetOK
    <2>11. SendsScript'
      BY <2>7, <2>9 DEF SendsScript, NetOK
    <2> QED BY <1>3, <2>10, <2>11, TypeKept DEF Send
  <1> QED BY <1>1, <1>2, <1>3 DEF ClientStep

-----------------------------------------------------------------------------
(* The main thread's actions. *)

LEMMA ThreadsKept ==
  /\ SendsScript /\ UNCHANGED net => SendsScript'
  /\ HasLocals /\ UNCHANGED pool /\ mpc' \in {"loop", "timeout", "accept"} => HasLocals'
  /\ HasLocals /\ UNCHANGED pool /\ cur' \in TaskRec => HasLocals'
  BY DEF SendsScript, HasLocals, net, pool

LEMMA ClosingTypes ==
  ASSUME ServerInv, Closing
  PROVE  Typed'
  <1> USE DEF Typed, TypeOK, ServerInv
  <1>1. ASSUME NEW f \in Fd, SweepClose(f) \/ HandleHup(f) PROVE Typed'
    <2>1. KernelOK'
      BY <1>1, RegisterType DEF SweepClose, HandleHup
    <2>2. cur' \in TaskRec
      BY <1>1, LocalType DEF SweepClose, HandleHup
    <2>3. MainOK'
      BY <1>1, <2>2 DEF SweepClose, HandleHup, Dispatch, MainOK
    <2> QED BY <1>1, <2>1, <2>2, <2>3, TypeKept, ThreadsKept DEF SweepClose, HandleHup
  <1>2. CASE MainDel
    <2>1. KernelOK'
      BY <1>2, RegisterType DEF MainDel
    <2>2. cur' \in TaskRec
      BY <1>2 DEF MainDel, HasLocals
    <2>3. MainOK'
      BY <1>2 DEF MainDel, MainOK
    <2> QED BY <1>2, <2>1, <2>2, <2>3, TypeKept, ThreadsKept DEF MainDel
  <1>3. CASE MainErase
    <2>1. cur.fd \in Fd
      BY <1>3 DEF MainErase, HasLocals, TaskRec
    <2>2. KernelOK' /\ NetOK' /\ ConnsOK'
      BY <1>3, <2>1, EraseType DEF MainErase, Tables
    <2>3. MainOK'
      BY <1>3 DEF MainErase, MainOK
    <2>4. SendsScript'
      BY <1>3 DEF MainErase, EraseConn, SendsScript
    <2> QED BY <1>3, <2>2, <2>3, <2>4, TypeKept, ThreadsKept DEF MainErase
  <1> QED BY <1>1, <1>2, <1>3 DEF Closing

LEMMA AcceptingTypes ==
  ASSUME ServerInv, Accepting
  PROVE  Typed'
  <1> USE DEF Typed, TypeOK, ServerInv
  <1>1. CASE BeginAccept
    <2>1. MainOK'
      BY <1>1 DEF BeginAccept, Dispatch, MainOK
    <2> QED BY <1>1, <2>1, TypeKept, ThreadsKept DEF BeginAccept
  <1>2. ASSUME NEW c \in Sock, AcceptDrop(c) PROVE Typed'
    <2>1. \A S : <<>> \in Seq(S)
      OBVIOUS
    <2>2. NetOK'
      BY <1>2, <2>1 DEF AcceptDrop, NetOK
    <2>3. SendsScript' /\ HasLocals'
      BY <1>2 DEF AcceptDrop, SendsScript, HasLocals, pool, main
    <2> QED BY <1>2, <2>2, <2>3, TypeKept DEF AcceptDrop
  <1>3. ASSUME NEW c \in Sock, NEW f \in Fd, AcceptAdd(c, f) PROVE Typed'
    <2>1. KernelOK' /\ NetOK'
      BY <1>3 DEF AcceptAdd, KernelOK, NetOK
    <2>2. cur' \in TaskRec
      BY <1>3 DEF AcceptAdd, TaskRec
    <2>3. MainOK'
      BY <1>3, <2>2 DEF AcceptAdd, MainOK
    <2>4. SendsScript'
      BY <1>3 DEF AcceptAdd, SendsScript
    <2> QED BY <1>3, <2>1, <2>2, <2>3, <2>4, TypeKept, ThreadsKept DEF AcceptAdd
  <1>4. CASE InsertUser
    <2> DEFINE old == IF users[cur.fd] = NoConn THEN NewConn ELSE users[cur.fd]
    <2>1. cur.fd \in Fd /\ file[cur.fd] \in Sock
      BY <1>4 DEF InsertUser, HasLocals, TaskRec, Tables, InsertsFresh
    <2>2. old \in Conn
      BY <2>1, NewConnType DEF ConnsOK
    <2>3. InitConn(old, file[cur.fd]) \in Conn
      BY <2>1, <2>2, ConnInit
    <2>4. users' = [users EXCEPT ![cur.fd] = InitConn(old, file[cur.fd])]
      BY <1>4, <2>1 DEF InsertUser, ConnsOK
    <2>5. ConnsOK'
      BY <1>4, <2>1, <2>3, <2>4 DEF InsertUser, Touch, ConnsOK
    <2>6. MainOK'
      BY <1>4 DEF InsertUser, MainOK
    <2> QED BY <1>4, <2>5, <2>6, TypeKept, ThreadsKept DEF InsertUser
  <1>5. CASE AcceptEnd
    <2>1. MainOK'
      BY <1>5 DEF AcceptEnd, MainOK
    <2> QED BY <1>5, <2>1, TypeKept, ThreadsKept DEF AcceptEnd
  <1> QED BY <1>1, <1>2, <1>3, <1>4, <1>5 DEF Accepting

(* The block under the lock in handle_write(), whatever it writes. *)
LEMMA WriteBlockTypes ==
  ASSUME ServerInv, NEW f \in Fd, NEW n \in Nat, WriteBlock(f, n)
  PROVE  /\ KernelOK' /\ NetOK' /\ PoolOK' /\ SendsScript'
         /\ lastActive' \in [Fd -> {"none", "fresh", "stale"}]
         /\ events' \subseteq (Fd \cup {ListenFd}) \X Event
         /\ toclose' \subseteq Fd
         /\ users[f] \in Conn
         /\ UNCHANGED pool
  <1> USE DEF ServerInv, Typed, TypeOK
  <1> DEFINE S == [req : Req \cup {NoReq}, part : Nat]
  <1>1. users[f] \in Conn
    BY DEF WriteBlock, ConnsOK
  <1>2. Sent(users[f], n) \in Seq(S)
    BY <1>1, SentType
  <1>3. \A s \in Seq(S) : s \o Sent(users[f], n) \in Seq(S)
    <2> HIDE DEF S
    <2> QED BY <1>2
  <1>4. outbox' \in [Sock -> Seq(S)]
    BY <1>3 DEF WriteBlock, NetOK
  <1>5. NetOK'
    BY <1>4 DEF WriteBlock, NetOK
  <1>6. SendsScript'
    BY DEF WriteBlock, SendsScript
  <1>7. lastActive' \in [Fd -> {"none", "fresh", "stale"}]
    BY DEF WriteBlock, Touch, ConnsOK
  <1>8. events' \subseteq (Fd \cup {ListenFd}) \X Event /\ toclose' \subseteq Fd
    BY DEF WriteBlock, Dispatch, MainOK
  <1> QED BY <1>1, <1>5, <1>6, <1>7, <1>8, TypeKept DEF WriteBlock

LEMMA HandleWriteTypes ==
  ASSUME ServerInv, NEW f \in Fd, HandleWrite(f)
  PROVE  Typed'
  <1> USE DEF ServerInv, Typed, TypeOK
  <1>1. users[f] \in Conn /\ users[f].sent \in Nat
    BY DEF HandleWrite, ConnsOK, Conn
  <1>2. WriteLen(users[f]) \in Nat
    BY HttpAssumption DEF WriteLen
  <1>3. ASSUME NEW k \in {"read", "pipe"}, NEW g \in Nat PROVE Local(k, f, g) \in TaskRec
    BY <1>3, LocalType
  <1>4. CASE HandleWriteAgain(f)
    <2>1. PICK n \in users[f].sent + 1 .. WriteLen(users[f]) - 1 :
            /\ WriteBlock(f, n)
            /\ users' = [users EXCEPT ![f] = AfterWrite(@, n)]
            /\ UNCHANGED <<mpc, cur>>
      BY <1>4 DEF HandleWriteAgain
    <2>2. n \in Nat
      BY <1>1, <1>2
    <2>3. users' \in [Fd -> Conn \cup {NoConn}]
      BY <1>1, <2>1, <2>2, ConnWrite DEF ConnsOK
    <2>4. ConnsOK' /\ MainOK'
      BY <2>1, <2>2, <2>3, WriteBlockTypes DEF ConnsOK, MainOK
    <2>5. HasLocals'
      BY <2>1, <2>2, WriteBlockTypes DEF HasLocals, pool
    <2> QED BY <2>1, <2>2, <2>4, <2>5, WriteBlockTypes
  <1>5. CASE HandleWriteError(f)
    <2>1. WriteBlock(f, users[f].sent) /\ UNCHANGED users /\ mpc' = "del"
      BY <1>5 DEF HandleWriteError
    <2>2. cur' \in TaskRec
      BY <1>3, <1>5 DEF HandleWriteError
    <2>3. ConnsOK' /\ MainOK'
      BY <1>1, <2>1, <2>2, WriteBlockTypes DEF ConnsOK, MainOK
    <2> QED BY <1>1, <2>1, <2>2, <2>3, WriteBlockTypes, ThreadsKept
  <1>6. CASE HandleWriteReady(f)
    <2>1. WriteBlock(f, WriteLen(users[f]))
      BY <1>6 DEF HandleWriteReady
    <2>2. ResetForNextRequest(users[f]) \in Conn
      BY <1>1, ConnReset
    <2>3. ResetForNextRequest(users[f]).gen \in Nat
      BY <2>2 DEF Conn
    <2>4. cur' \in TaskRec /\ mpc' \in {"enqueue", "arm", "del"}
      BY <1>3, <1>6, <2>3 DEF HandleWriteReady
    <2>5. users' \in [Fd -> Conn \cup {NoConn}]
      <3>1. AfterWrite(users[f], WriteLen(users[f])) \in Conn
        BY <1>1, <1>2, ConnWrite
      <3>2. users' = [users EXCEPT ![f] = ResetForNextRequest(users[f])]
            \/ users' = [users EXCEPT ![f] = AfterWrite(users[f], WriteLen(users[f]))]
        BY <1>6 DEF HandleWriteReady, ConnsOK
      <3> QED BY <2>2, <3>1, <3>2 DEF ConnsOK
    <2>6. ConnsOK' /\ MainOK'
      BY <1>2, <2>1, <2>4, <2>5, WriteBlockTypes DEF ConnsOK, MainOK
    <2> QED BY <1>2, <2>1, <2>4, <2>6, WriteBlockTypes, ThreadsKept
  <1> QED BY <1>4, <1>5, <1>6 DEF HandleWrite

LEMMA ServingTypes ==
  ASSUME ServerInv, Serving
  PROVE  Typed'
  <1> USE DEF Typed, TypeOK, ServerInv
  <1>1. ASSUME NEW f \in Fd, HandleGone(f) PROVE Typed'
    <2>1. MainOK'
      BY <1>1 DEF HandleGone, Dispatch, MainOK
    <2>2. HasLocals'
      BY <1>1 DEF HandleGone, HasLocals, pool
    <2> QED BY <1>1, <2>1, <2>2, TypeKept, ThreadsKept DEF HandleGone
  <1>2. ASSUME NEW f \in Fd, HandleRead(f) PROVE Typed'
    <2>1. users[f].gen \in Nat
      BY <1>2 DEF HandleRead, ConnsOK, Conn
    <2>2. cur' \in TaskRec
      BY <1>2, <2>1, LocalType DEF HandleRead
    <2>3. MainOK'
      BY <1>2, <2>2 DEF HandleRead, Dispatch, MainOK
    <2> QED BY <1>2, <2>2, <2>3, TypeKept, ThreadsKept DEF HandleRead
  <1>3. CASE EnqueueTask
    <2>1. cur \in TaskRec
      BY <1>3 DEF EnqueueTask, HasLocals
    <2>2. tasks' \in Seq(TaskRec) /\ UNCHANGED wtask
      BY <1>3, <2>1 DEF EnqueueTask, Pool!Accept, PoolOK
    <2>3. PoolOK' /\ MainOK'
      BY <1>3, <2>2 DEF EnqueueTask, PoolOK, MainOK
    <2>4. HasLocals'
      BY <1>3, <2>2 DEF EnqueueTask, HasLocals
    <2> QED BY <1>3, <2>3, <2>4, TypeKept, ThreadsKept DEF EnqueueTask
  <1>4. CASE EnqueueFails
    <2>1. cur' \in TaskRec
      BY <1>4 DEF EnqueueFails, HasLocals
    <2>2. MainOK'
      BY <1>4 DEF EnqueueFails, MainOK
    <2> QED BY <1>4, <2>1, <2>2, TypeKept, ThreadsKept DEF EnqueueFails
  <1>5. CASE ArmRead
    <2>1. KernelOK'
      BY <1>5, RegisterType DEF ArmRead
    <2>2. MainOK'
      BY <1>5 DEF ArmRead, MainOK
    <2> QED BY <1>5, <2>1, <2>2, TypeKept, ThreadsKept DEF ArmRead
  <1> QED BY <1>1, <1>2, <1>3, <1>4, <1>5, HandleWriteTypes DEF Serving

LEMMA MainTypes ==
  ASSUME ServerInv, MainStep
  PROVE  Typed'
  <1> USE DEF Typed, TypeOK, ServerInv
  <1>1. CASE EpollWait
    <2>1. MainOK'
      BY <1>1, ReadyType DEF EpollWait, MainOK
    <2> QED BY <1>1, <2>1, TypeKept, ThreadsKept DEF EpollWait
  <1>2. CASE HandleTimeout
    <2>1. MainOK'
      BY <1>2 DEF HandleTimeout, MainOK
    <2> QED BY <1>2, <2>1, TypeKept, ThreadsKept DEF HandleTimeout
  <1> QED BY <1>1, <1>2, ClosingTypes, AcceptingTypes, ServingTypes DEF MainStep

-----------------------------------------------------------------------------
(* The workers' actions. *)

(* A worker past the start of a closure has the closure's captures. *)
LEMMA TaskType ==
  ASSUME HasLocals, NEW w \in Worker, wpc[w] # "idle"
  PROVE  wtask[w] \in TaskRec /\ wtask[w].fd \in Fd
  BY DEF HasLocals, TaskRec

LEMMA EndTaskTypes ==
  ASSUME PoolOK, HasLocals, NEW w \in Worker, EndTask(w), UNCHANGED main
  PROVE  PoolOK' /\ HasLocals'
  <1>1. wtask' = [wtask EXCEPT ![w] = NoTask] /\ UNCHANGED tasks
    BY DEF EndTask, Pool!Finish
  <1>2. PoolOK'
    BY <1>1 DEF EndTask, PoolOK
  <1>3. HasLocals'
    BY <1>1 DEF EndTask, HasLocals, PoolOK, main
  <1> QED BY <1>2, <1>3

LEMMA GoToTypes ==
  ASSUME PoolOK, HasLocals, NEW w \in Worker, wpc[w] # "idle",
         NEW pc \in {"arm", "del", "erase"}, GoTo(w, pc), UNCHANGED main
  PROVE  PoolOK' /\ HasLocals'
  <1>1. PoolOK'
    BY DEF GoTo, PoolOK
  <1>2. HasLocals'
    BY DEF GoTo, HasLocals, PoolOK, main
  <1> QED BY <1>1, <1>2

(* A call of read_once() takes a prefix of what the socket has received. *)
LEMMA ReadTakesPrefix ==
  ASSUME NEW buf, NEW in \in Seq(Unit), NEW n \in ReadTakes(buf, in)
  PROVE  n \in 0..Len(in)
  BY DEF ReadTakes

(* What the block under the lock in handle_read()'s closure leaves in      *)
(* users_ for the connection: the same socket's object.                    *)
LEMMA RunReadConn ==
  ASSUME NEW c \in Conn, NEW st
  PROVE  LET d == CASE st = "READY" -> Process(c)
                    [] st = "HEAD_TOO_LARGE" -> Refuse(c, "431")
                    [] st = "BODY_TOO_LARGE" -> Refuse(c, "413")
                    [] OTHER -> c
         IN  d \in Conn /\ d.sock = c.sock
  <1>1. "431" \in Status /\ "413" \in Status
    BY DEF Status
  <1> QED BY <1>1, ConnProcess, ConnRefuse

(* The effect of that block, as far as the tables are concerned. *)
LEMMA RunReadEffect ==
  ASSUME Typed, Tables, NEW w \in Worker, RunRead(w)
  PROVE  /\ inbox' \in [Sock -> Seq(Unit)]
         /\ \E d \in Conn : d.sock = users[wtask[w].fd].sock
                            /\ users' = [users EXCEPT ![wtask[w].fd] = d]
         /\ EndTask(w) \/ GoTo(w, "del") \/ GoTo(w, "arm")
  <1> USE DEF Typed, TypeOK
  <1> DEFINE f == wtask[w].fd
             in == inbox[file[f]]
             st(n) == ReadState(users[f].rbuf, in, n, peer[file[f]] = "fin")
             c(n) == AfterRead(users[f], in, n)
             d(n) == CASE st(n) = "READY" -> Process(c(n))
                       [] st(n) = "HEAD_TOO_LARGE" -> Refuse(c(n), "431")
                       [] st(n) = "BODY_TOO_LARGE" -> Refuse(c(n), "413")
                       [] OTHER -> c(n)
  <1>1. f \in Fd /\ users[f] # NoConn
    BY TaskType DEF RunRead, Current
  <1>2. users[f] \in Conn /\ file[f] \in Sock
    BY <1>1 DEF ConnsOK, Tables, OwnsFd, BoundConns
  <1>3. in \in Seq(Unit)
    BY <1>2 DEF NetOK
  <1>4. PICK n \in ReadTakes(users[f].rbuf, in) :
          /\ inbox' = [inbox EXCEPT ![file[f]] = SubSeq(@, n + 1, Len(@))]
          /\ users' = [users EXCEPT ![f] = d(n)]
          /\ CASE st(n) = "AGAIN" -> EndTask(w)
               [] st(n) = "CLOSED" -> GoTo(w, "del")
               [] OTHER -> GoTo(w, "arm")
    BY DEF RunRead
  <1>5. n \in 0..Len(in)
    BY <1>3, ReadTakesPrefix
  <1>6. c(n) \in Conn /\ c(n).sock = users[f].sock
    BY <1>2, <1>3, <1>5, ConnRead
  <1>7. d(n) \in Conn /\ d(n).sock = users[f].sock
    <2> HIDE DEF c, st
    <2> QED BY <1>6, RunReadConn
  <1>8. inbox' \in [Sock -> Seq(Unit)]
    <2>1. SubSeq(in, n + 1, Len(in)) \in Seq(Unit)
      <3> HIDE DEF in
      <3> QED BY <1>3, <1>5, SubSeqProperties
    <2>2. inbox' = [inbox EXCEPT ![file[f]] = SubSeq(in, n + 1, Len(in))]
      BY <1>2, <1>4 DEF NetOK
    <2> HIDE DEF in
    <2> QED BY <2>1, <2>2 DEF NetOK
  <1>9. EndTask(w) \/ GoTo(w, "del") \/ GoTo(w, "arm")
    <2> HIDE DEF st, d, c
    <2> QED BY <1>4
  <1> HIDE DEF d, in, st, c
  <1> QED BY <1>4, <1>7, <1>8, <1>9

LEMMA WorkerTypes ==
  ASSUME ServerInv, NEW w \in Worker, WorkerStep(w)
  PROVE  Typed'
  <1> USE DEF ServerInv, Typed, TypeOK
  <1>1. CASE StartTask(w)
    <2>1. /\ tasks # <<>>
          /\ wtask' = [wtask EXCEPT ![w] = Head(tasks)]
          /\ tasks' = Tail(tasks)
      BY <1>1 DEF StartTask, Pool!Start
    <2>2. Head(tasks) \in TaskRec /\ Tail(tasks) \in Seq(TaskRec)
      <3>1. tasks \in Seq(TaskRec)
        BY DEF PoolOK
      <3> QED BY <2>1, <3>1
    <2>3. PoolOK'
      BY <1>1, <2>1, <2>2 DEF StartTask, PoolOK
    <2>4. HasLocals'
      BY <1>1, <2>1, <2>2 DEF StartTask, HasLocals, PoolOK, main
    <2> QED BY <1>1, <2>3, <2>4, TypeKept, ThreadsKept DEF StartTask
  <1>2. CASE RunStale(w)
    BY <1>2, EndTaskTypes, TypeKept, ThreadsKept DEF RunStale
  <1>3. CASE RunRead(w)
    <2>1. NetOK' /\ SendsScript'
      BY <1>3, RunReadEffect DEF RunRead, NetOK, SendsScript
    <2>2. ConnsOK'
      <3>1. wtask[w].fd \in Fd
        BY <1>3, TaskType DEF RunRead
      <3>2. PICK d \in Conn : users' = [users EXCEPT ![wtask[w].fd] = d]
        BY <1>3, RunReadEffect
      <3>3. lastActive' = [lastActive EXCEPT ![wtask[w].fd] = "fresh"]
        BY <1>3 DEF RunRead, Touch
      <3> QED BY <3>1, <3>2, <3>3 DEF ConnsOK
    <2>3. PoolOK' /\ HasLocals'
      BY <1>3, RunReadEffect, EndTaskTypes, GoToTypes DEF RunRead
    <2> QED BY <1>3, <2>1, <2>2, <2>3, TypeKept DEF RunRead
  <1>4. CASE RunPipe(w)
    <2> DEFINE f == wtask[w].fd
    <2>1. f \in Fd /\ users[f] \in Conn
      BY <1>4, TaskType DEF RunPipe, Current, ConnsOK
    <2>2. ConnsOK'
      BY <1>4, <2>1, ConnProcess DEF RunPipe, Touch, ConnsOK
    <2>3. PoolOK' /\ HasLocals'
      BY <1>4, GoToTypes DEF RunPipe
    <2> QED BY <1>4, <2>2, <2>3, TypeKept, ThreadsKept DEF RunPipe
  <1>5. CASE ArmWrite(w)
    <2>1. KernelOK'
      BY <1>5, RegisterType DEF ArmWrite
    <2>2. PoolOK' /\ HasLocals'
      BY <1>5, EndTaskTypes DEF ArmWrite
    <2> QED BY <1>5, <2>1, <2>2, TypeKept, ThreadsKept DEF ArmWrite
  <1>6. CASE WorkerDel(w)
    <2>1. KernelOK'
      BY <1>6, RegisterType DEF WorkerDel
    <2>2. PoolOK' /\ HasLocals'
      BY <1>6, GoToTypes DEF WorkerDel
    <2> QED BY <1>6, <2>1, <2>2, TypeKept, ThreadsKept DEF WorkerDel
  <1>7. CASE WorkerErase(w)
    <2>1. wtask[w].fd \in Fd
      BY <1>7, TaskType DEF WorkerErase
    <2>2. KernelOK' /\ NetOK' /\ ConnsOK'
      BY <1>7, <2>1, EraseType DEF WorkerErase, Tables
    <2>3. PoolOK' /\ HasLocals'
      BY <1>7, EndTaskTypes DEF WorkerErase
    <2>4. SendsScript'
      BY <1>7 DEF WorkerErase, EraseConn, SendsScript
    <2> QED BY <1>7, <2>2, <2>3, <2>4, TypeKept DEF WorkerErase
  <1> QED BY <1>1, <1>2, <1>3, <1>4, <1>5, <1>6, <1>7 DEF WorkerStep

-----------------------------------------------------------------------------
(* Descriptors, users_ and last_active_: the three ways an action touches  *)
(* them, then the actions.                                                 *)

(* The main thread is not between accept() and the insertion, or it stays  *)
(* where it is.                                                            *)
NotInserting == (mpc # "insert" /\ mpc' # "insert") \/ UNCHANGED <<mpc, cur>>

LEMMA TablesKept ==
  ASSUME Tables, NotInserting, UNCHANGED <<file, conns>>
  PROVE  Tables'
  <1> USE DEF Tables, NotInserting, conns
  <1>1. BoundConns' /\ OwnsFd' /\ IdleClockInSync'
    BY DEF BoundConns, OwnsFd, IdleClockInSync
  <1>2. InsertsFresh'
    BY DEF InsertsFresh
  <1>3. NoFdLeak'
    BY DEF NoFdLeak
  <1> QED BY <1>1, <1>2, <1>3

(* An entry is replaced by one for the same socket, and its clock set. *)
LEMMA TablesUpdated ==
  ASSUME TypeOK, HasLocals, Tables, NotInserting, UNCHANGED file,
         NEW f \in Fd, users[f] # NoConn, Touch(f),
         NEW d \in Conn, d.sock = users[f].sock, users' = [users EXCEPT ![f] = d]
  PROVE  Tables'
  <1> USE DEF Tables, NotInserting
  <1>1. d # NoConn
    BY ServerAssumption
  <1>2. users \in [Fd -> Conn \cup {NoConn}] /\ lastActive \in [Fd -> {"none", "fresh", "stale"}]
    BY DEF TypeOK, ConnsOK
  <1>3. BoundConns' /\ OwnsFd'
    BY <1>1, <1>2 DEF BoundConns, OwnsFd
  <1>4. IdleClockInSync'
    BY <1>1, <1>2 DEF IdleClockInSync, Touch
  <1>5. InsertsFresh'
    BY <1>1, <1>2 DEF InsertsFresh, HasLocals, TaskRec
  <1>6. NoFdLeak'
    BY <1>1, <1>2 DEF NoFdLeak
  <1> QED BY <1>3, <1>4, <1>5, <1>6

(* close_conn() under the lock.  A worker may close a descriptor that is   *)
(* being inserted: it finds no entry and leaves the descriptor alone.      *)
LEMMA TablesErased ==
  ASSUME TypeOK, HasLocals, Tables, NotInserting, NEW f \in Fd, EraseConn(f)
  PROVE  Tables'
  <1> USE DEF Tables, NotInserting
  <1>1. /\ file \in [Fd -> Sock \cup {NoSock}]
        /\ users \in [Fd -> Conn \cup {NoConn}]
        /\ lastActive \in [Fd -> {"none", "fresh", "stale"}]
    BY DEF TypeOK, KernelOK, ConnsOK
  <1>2. /\ users' = [users EXCEPT ![f] = NoConn]
        /\ lastActive' = [lastActive EXCEPT ![f] = "none"]
        /\ users[f] # NoConn => file' = [file EXCEPT ![f] = NoSock]
        /\ users[f] = NoConn => UNCHANGED file
    BY DEF EraseConn
  <1>3. BoundConns' /\ OwnsFd' /\ IdleClockInSync'
    BY <1>1, <1>2 DEF BoundConns, OwnsFd, IdleClockInSync
  <1>4. InsertsFresh'
    <2> SUFFICES ASSUME mpc' = "insert" PROVE file'[cur'.fd] \in Sock /\ users'[cur'.fd] = NoConn
      BY DEF InsertsFresh
    <2>1. mpc = "insert" /\ cur' = cur
      OBVIOUS
    <2>2. cur.fd \in Fd
      BY <2>1 DEF HasLocals, TaskRec
    <2>3. file[cur.fd] \in Sock /\ users[cur.fd] = NoConn
      BY <2>1 DEF InsertsFresh
    <2> QED BY <1>1, <1>2, <2>1, <2>2, <2>3
  <1>5. NoFdLeak'
    BY <1>1, <1>2 DEF NoFdLeak
  <1> QED BY <1>3, <1>4, <1>5

LEMMA AcceptingTables ==
  ASSUME ServerInv, Accepting
  PROVE  Tables'
  <1> USE DEF ServerInv, Typed
  <1>1. CASE BeginAccept
    BY <1>1, TablesKept DEF BeginAccept, Dispatch, NotInserting, kernel
  <1>2. ASSUME NEW c \in Sock, AcceptDrop(c) PROVE Tables'
    BY <1>2, TablesKept DEF AcceptDrop, NotInserting, kernel, main
  <1>3. ASSUME NEW c \in Sock, NEW f \in Fd, AcceptAdd(c, f) PROVE Tables'
    <2>1. /\ file \in [Fd -> Sock \cup {NoSock}] /\ file[f] = NoSock
          /\ file' = [file EXCEPT ![f] = c]
          /\ mpc = "accept" /\ cur'.fd = f /\ mpc' = "insert" /\ UNCHANGED <<users, lastActive>>
      BY <1>3 DEF AcceptAdd, FreeFd, TypeOK, KernelOK, conns
    <2>2. users[f] = NoConn
      BY <2>1, HttpAssumption DEF Tables, OwnsFd, BoundConns
    <2>3. BoundConns' /\ OwnsFd' /\ IdleClockInSync'
      BY <2>1, <2>2 DEF Tables, BoundConns, OwnsFd, IdleClockInSync
    <2>4. InsertsFresh' /\ NoFdLeak'
      BY <2>1, <2>2 DEF Tables, InsertsFresh, NoFdLeak
    <2> QED BY <2>3, <2>4 DEF Tables
  <1>4. CASE InsertUser
    <2> DEFINE f == cur.fd
               new == InitConn(NewConn, file[f])
    <2>1. f \in Fd /\ file[f] \in Sock /\ users[f] = NoConn
      BY <1>4 DEF InsertUser, HasLocals, TaskRec, Tables, InsertsFresh
    <2>2. /\ users \in [Fd -> Conn \cup {NoConn}]
          /\ lastActive \in [Fd -> {"none", "fresh", "stale"}]
      BY DEF TypeOK, ConnsOK
    <2>3. /\ users' = [users EXCEPT ![f] = new]
          /\ lastActive' = [lastActive EXCEPT ![f] = "fresh"]
          /\ UNCHANGED file
          /\ mpc = "insert" /\ mpc' = "accept"
      BY <1>4, <2>1, <2>2 DEF InsertUser, Touch, kernel
    <2>4. new \in Conn /\ new.sock = file[f]
      BY <2>1, NewConnType, ConnInit DEF InitConn
    <2>5. new # NoConn
      BY <2>4, ServerAssumption
    <2> HIDE DEF new
    <2>6. BoundConns' /\ OwnsFd' /\ IdleClockInSync'
      BY <2>1, <2>2, <2>3, <2>4, <2>5 DEF Tables, BoundConns, OwnsFd, IdleClockInSync
    <2>7. InsertsFresh' /\ NoFdLeak'
      BY <2>1, <2>2, <2>3, <2>5 DEF Tables, InsertsFresh, NoFdLeak
    <2> QED BY <2>6, <2>7 DEF Tables
  <1>5. CASE AcceptEnd
    BY <1>5, TablesKept DEF AcceptEnd, NotInserting, kernel
  <1> QED BY <1>1, <1>2, <1>3, <1>4, <1>5 DEF Accepting

LEMMA HandleWriteTables ==
  ASSUME ServerInv, NEW f \in Fd, HandleWrite(f)
  PROVE  Tables'
  <1> USE DEF ServerInv, Typed
  <1>1. users[f] # NoConn /\ users[f] \in Conn /\ users[f].sent \in Nat
    BY DEF HandleWrite, TypeOK, ConnsOK, Conn
  <1>2. WriteLen(users[f]) \in Nat
    BY HttpAssumption DEF WriteLen
  <1>3. Touch(f) /\ UNCHANGED file /\ NotInserting
    BY DEF HandleWrite, HandleWriteAgain, HandleWriteError, HandleWriteReady,
           WriteBlock, Dispatch, NotInserting, kernel
  <1>4. PICK d \in Conn : d.sock = users[f].sock /\ users' = [users EXCEPT ![f] = d]
    <2>1. users \in [Fd -> Conn \cup {NoConn}]
      BY DEF TypeOK, ConnsOK
    <2>2. CASE HandleWriteAgain(f)
      <3>1. PICK n \in users[f].sent + 1 .. WriteLen(users[f]) - 1 :
              users' = [users EXCEPT ![f] = AfterWrite(users[f], n)]
        BY <2>1, <2>2 DEF HandleWriteAgain
      <3>2. n \in Nat
        BY <1>1, <1>2
      <3> QED BY <1>1, <3>1, <3>2, ConnWrite
    <2>3. CASE HandleWriteError(f)
      <3>1. users' = [users EXCEPT ![f] = users[f]]
        BY <2>1, <2>3 DEF HandleWriteError
      <3> QED BY <1>1, <3>1
    <2>4. CASE HandleWriteReady(f)
      <3>1. users' = [users EXCEPT ![f] = ResetForNextRequest(users[f])]
            \/ users' = [users EXCEPT ![f] = AfterWrite(users[f], WriteLen(users[f]))]
        BY <2>1, <2>4 DEF HandleWriteReady
      <3> QED BY <1>1, <1>2, <3>1, ConnReset, ConnWrite
    <2> QED BY <2>2, <2>3, <2>4 DEF HandleWrite
  <1> QED BY <1>1, <1>3, <1>4, TablesUpdated

LEMMA MainTables ==
  ASSUME ServerInv, MainStep
  PROVE  Tables'
  <1> USE DEF ServerInv, Typed
  <1>1. CASE EpollWait \/ HandleTimeout
    BY <1>1, TablesKept DEF EpollWait, HandleTimeout, NotInserting, kernel
  <1>2. ASSUME NEW f \in Fd, SweepClose(f) \/ HandleHup(f) PROVE Tables'
    BY <1>2, TablesKept DEF SweepClose, HandleHup, Dispatch, NotInserting
  <1>3. CASE MainDel
    BY <1>3, TablesKept DEF MainDel, NotInserting
  <1>4. CASE MainErase
    <2>1. cur.fd \in Fd /\ NotInserting
      BY <1>4 DEF MainErase, HasLocals, TaskRec, NotInserting
    <2> QED BY <1>4, <2>1, TablesErased DEF MainErase
  <1>5. ASSUME NEW f \in Fd, HandleGone(f) \/ HandleRead(f) PROVE Tables'
    BY <1>5, TablesKept DEF HandleGone, HandleRead, Dispatch, NotInserting, kernel
  <1>6. CASE EnqueueTask \/ EnqueueFails \/ ArmRead
    BY <1>6, TablesKept DEF EnqueueTask, EnqueueFails, ArmRead, NotInserting, kernel
  <1> QED BY <1>1, <1>2, <1>3, <1>4, <1>5, <1>6, AcceptingTables, HandleWriteTables
          DEF MainStep, Closing, Serving

LEMMA WorkerTables ==
  ASSUME ServerInv, NEW w \in Worker, WorkerStep(w)
  PROVE  Tables'
  <1> USE DEF ServerInv, Typed
  <1>1. CASE StartTask(w) \/ RunStale(w)
    BY <1>1, TablesKept DEF StartTask, RunStale, NotInserting, kernel, main
  <1>2. CASE RunRead(w)
    <2> DEFINE f == wtask[w].fd
    <2>1. f \in Fd /\ users[f] # NoConn /\ Touch(f) /\ UNCHANGED file /\ NotInserting
      BY <1>2, TaskType DEF RunRead, Current, NotInserting, kernel, main
    <2>2. PICK d \in Conn : d.sock = users[f].sock /\ users' = [users EXCEPT ![f] = d]
      BY <1>2, RunReadEffect
    <2> HIDE DEF f
    <2> QED BY <2>1, <2>2, TablesUpdated
  <1>3. CASE RunPipe(w)
    <2> DEFINE f == wtask[w].fd
    <2>1. f \in Fd /\ users[f] # NoConn /\ Touch(f) /\ UNCHANGED file /\ NotInserting
      BY <1>3, TaskType DEF RunPipe, Current, NotInserting, kernel, main
    <2>2. users[f] \in Conn
      BY <2>1 DEF TypeOK, ConnsOK
    <2>3. users' = [users EXCEPT ![f] = Process(users[f])]
      BY <1>3, <2>1 DEF RunPipe, TypeOK, ConnsOK
    <2> HIDE DEF f
    <2> QED BY <2>1, <2>2, <2>3, ConnProcess, TablesUpdated
  <1>4. CASE ArmWrite(w) \/ WorkerDel(w)
    BY <1>4, TablesKept DEF ArmWrite, WorkerDel, NotInserting, main
  <1>5. CASE WorkerErase(w)
    <2>1. wtask[w].fd \in Fd /\ NotInserting
      BY <1>5, TaskType DEF WorkerErase, NotInserting, main
    <2> QED BY <1>5, <2>1, TablesErased DEF WorkerErase
  <1> QED BY <1>1, <1>2, <1>3, <1>4, <1>5 DEF WorkerStep

-----------------------------------------------------------------------------
(* The theorems. *)

LEMMA ServerInit == Init => ServerInv
  <1> SUFFICES ASSUME Init PROVE ServerInv
    OBVIOUS
  <1>1. SendsScript
    <2>1. \A c \in Sock : pos[c] = [req |-> 1, unit |-> 1]
      BY DEF Init
    <2>2. ASSUME NEW c \in Sock, 1 <= Len(Script[c])
          PROVE  1 <= Len(Wire(Script[c][1]))
      <3>1. Script[c] \in Seq(Req)
        BY ServerAssumption
      <3>2. Script[c][1] \in Req
        BY <2>2, <3>1
      <3> QED BY <3>2, WireType
    <2> QED BY <2>1, <2>2 DEF SendsScript
  <1>2. HasLocals
    BY DEF Init, HasLocals
  <1>3. Tables
    BY DEF Init, Tables, BoundConns, InsertsFresh, OwnsFd, NoFdLeak, IdleClockInSync
  <1> QED BY <1>1, <1>2, <1>3, TypeInit DEF ServerInv, Typed

LEMMA ServerStep == ServerInv /\ [Next]_vars => ServerInv'
  <1> SUFFICES ASSUME ServerInv, [Next]_vars PROVE ServerInv'
    OBVIOUS
  <1> USE DEF ServerInv, Typed
  <1>1. CASE UNCHANGED vars
    <2>1. Typed'
      BY <1>1, TypeKept, ThreadsKept DEF vars, TypeOK, HasLocals, pool, main
    <2>2. Tables'
      BY <1>1, TablesKept DEF vars, NotInserting, kernel, main
    <2> QED BY <2>1, <2>2
  <1>2. ASSUME NEW c \in Sock, ClientStep(c) PROVE ServerInv'
    <2>1. TypeOK' /\ SendsScript'
      BY <1>2, ClientTypes
    <2>2. UNCHANGED <<kernel, conns, pool, main>>
      BY <1>2 DEF ClientStep, Connect, Send, HalfClose
    <2>3. HasLocals'
      BY <2>2 DEF HasLocals, pool, main
    <2>4. Tables'
      BY <2>2, TablesKept DEF NotInserting, kernel, main
    <2> QED BY <2>1, <2>3, <2>4
  <1>3. ASSUME NEW f \in Fd, Idle(f) PROVE ServerInv'
    <2>1. ConnsOK'
      BY <1>3 DEF Idle, TypeOK, ConnsOK
    <2>2. TypeOK'
      BY <1>3, <2>1, TypeKept DEF Idle, TypeOK
    <2>3. SendsScript' /\ HasLocals'
      BY <1>3 DEF Idle, SendsScript, HasLocals, net, pool, main
    <2>4. Tables'
      BY <1>3 DEF Idle, TypeOK, ConnsOK, Tables, BoundConns, InsertsFresh, OwnsFd,
                  NoFdLeak, IdleClockInSync, kernel, main
    <2> QED BY <2>2, <2>3, <2>4
  <1>4. CASE MainStep
    BY <1>4, MainTypes, MainTables
  <1>5. ASSUME NEW w \in Worker, WorkerStep(w) PROVE ServerInv'
    BY <1>5, WorkerTypes, WorkerTables
  <1> QED BY <1>1, <1>2, <1>3, <1>4, <1>5 DEF Next

THEOREM ServerInvariant == Spec => []ServerInv
  BY ServerInit, ServerStep, PTL DEF Spec

(* Every variable keeps its type: no handler or closure ever works on an   *)
(* object, a descriptor or a task that does not exist.                     *)
THEOREM ServerTypeCorrect == Spec => []TypeOK
  <1>1. ServerInv => TypeOK
    BY DEF ServerInv, Typed
  <1> QED BY <1>1, ServerInvariant, PTL

(* However closes, reuses of a descriptor and late closures interleave, an *)
(* entry of users_ is bound to the socket open under its descriptor.       *)
THEOREM ServerOwnsFd == Spec => []OwnsFd
  <1>1. ServerInv => OwnsFd
    BY DEF ServerInv, Tables
  <1> QED BY <1>1, ServerInvariant, PTL

(* No open descriptor is without an owner that will close it. *)
THEOREM ServerNoFdLeak == Spec => []NoFdLeak
  <1>1. ServerInv => NoFdLeak
    BY DEF ServerInv, Tables
  <1> QED BY <1>1, ServerInvariant, PTL

(* users_ and last_active_ have the same keys. *)
THEOREM ServerIdleClockInSync == Spec => []IdleClockInSync
  <1>1. ServerInv => IdleClockInSync
    BY DEF ServerInv, Tables
  <1> QED BY <1>1, ServerInvariant, PTL

(* Of the k-th request of client c, which will send next what p says, the  *)
(* server's side holds s: nothing yet, a beginning, or all of it.          *)
Arrived(c, k, s, p) ==
  \/ s = <<>> /\ p = [req |-> k, unit |-> 1]
  \/ /\ k \in 1..Len(Script[c])
     /\ Begins(s, Script[c][k])
     /\ \/ Len(s) < Len(Wire(Script[c][k])) /\ p = [req |-> k, unit |-> Len(s) + 1]
        \/ Len(s) = Len(Wire(Script[c][k])) /\ p = [req |-> k + 1, unit |-> 1]

(* The server has answered d requests of c and waits for the next one, of  *)
(* which conn and the socket hold what has arrived.                        *)
Waits(c, d, conn, in, out, p) ==
  /\ conn.wbuf = Nothing /\ conn.sent = 0 /\ ~conn.ka
  /\ Len(out) = d * RespLen
  /\ Arrived(c, d + 1, conn.rbuf \o in, p)

(* The server has answered d requests of c and part of the next one, which *)
(* is whole in conn's buffer; c waits and has sent nothing behind it.      *)
Answers(c, d, conn, in, out, p) ==
  /\ d + 1 <= Len(Script[c])
  /\ conn.wbuf # Nothing /\ conn.wbuf.req = Script[c][d + 1]
  /\ conn.sent < RespLen
  /\ Len(out) = d * RespLen + conn.sent
  /\ conn.rbuf = Wire(Script[c][d + 1]) /\ in = <<>>
  /\ p = [req |-> d + 2, unit |-> 1]

(* Either way. *)
InTurn(c, conn, in, out, p) ==
  \E d \in Nat : Waits(c, d, conn, in, out, p) \/ Answers(c, d, conn, in, out, p)

(* StreamIntegrity, for client c and what it has received. *)
Intact(c, out) ==
  \A i \in DOMAIN out :
    LET k == ((i - 1) \div RespLen) + 1 IN
    /\ k <= Len(Script[c])
    /\ out[i] = [req |-> Script[c][k], part |-> ((i - 1) % RespLen) + 1]

-----------------------------------------------------------------------------
(* Clients that wait for each answer: the stream of one connection, what  *)
(* its client has sent and received and what the server holds of it.       *)

(* A client's script is a sequence of requests. *)
LEMMA ScriptType ==
  ASSUME NEW c \in Sock
  PROVE  /\ Len(Script[c]) \in Nat
         /\ \A k \in 1..Len(Script[c]) : Script[c][k] \in Req
  BY ServerAssumption

(* What a client sends next of a request that has not all been sent. *)
LEMMA ArrivesNext ==
  ASSUME NEW c \in Sock, NEW k \in Nat \ {0}, NEW s \in Seq(Unit),
         NEW p, Arrived(c, k, s, p), p.req = k, k <= Len(Script[c])
  PROVE  LET units == Wire(Script[c][k]) IN
         /\ units[p.unit] \in Unit
         /\ Arrived(c, k, Append(s, units[p.unit]),
                    IF p.unit < Len(units) THEN [req |-> p.req, unit |-> p.unit + 1]
                                           ELSE [req |-> p.req + 1, unit |-> 1])
  <1> DEFINE r == Script[c][k]
             units == Wire(r)
             u == p.unit
             t == Append(s, units[u])
             next == IF u < Len(units) THEN [req |-> k, unit |-> u + 1]
                                       ELSE [req |-> k + 1, unit |-> 1]
  <1>1. k \in 1..Len(Script[c]) /\ r \in Req
    BY ScriptType
  <1>2. units \in Seq(Unit) /\ Len(units) \in Nat \ {0}
    BY <1>1, WireType
  <1>3. Len(s) \in Nat
    OBVIOUS
  <1>4. u = Len(s) + 1 /\ Len(s) < Len(units) /\ \A i \in 1..Len(s) : s[i] = units[i]
    <2> HIDE DEF units
    <2>1. CASE s = <<>> /\ p = [req |-> k, unit |-> 1]
      BY <1>2, <2>1
    <2>2. CASE ~(s = <<>> /\ p = [req |-> k, unit |-> 1])
      BY <2>2 DEF Arrived, Begins, units
    <2> QED BY <2>1, <2>2
  <1> HIDE DEF units
  <1>5. units[u] \in Unit
    BY <1>2, <1>3, <1>4
  <1>6. t \in Seq(Unit) /\ Len(t) = Len(s) + 1
    BY <1>5
  <1>7. \A i \in 1..Len(t) : t[i] = units[i]
    BY <1>3, <1>4, <1>5
  <1> HIDE DEF t
  <1>8. Begins(t, r)
    BY <1>2, <1>3, <1>4, <1>6, <1>7 DEF Begins, units
  <1>9. \/ Len(t) < Len(units) /\ next = [req |-> k, unit |-> Len(t) + 1]
        \/ Len(t) = Len(units) /\ next = [req |-> k + 1, unit |-> 1]
    BY <1>2, <1>3, <1>4, <1>6
  <1>10. Arrived(c, k, t, next)
    BY <1>1, <1>8, <1>9 DEF Arrived, units
  <1> QED BY <1>5, <1>10 DEF t, units

(* A client that waits for each answer sends nothing behind its request. *)
LEMMA SendInTurn ==
  ASSUME NEW c \in Sock, NEW conn \in Conn, NEW in \in Seq(Unit), NEW out,
         NEW p, InTurn(c, conn, in, out, p),
         p.req <= Len(Script[c]), Len(out) >= (p.req - 1) * RespLen
  PROVE  LET units == Wire(Script[c][p.req]) IN
         InTurn(c, conn, Append(in, units[p.unit]), out,
                IF p.unit < Len(units) THEN [req |-> p.req, unit |-> p.unit + 1]
                                       ELSE [req |-> p.req + 1, unit |-> 1])
  <1>1. PICK d \in Nat : Waits(c, d, conn, in, out, p) \/ Answers(c, d, conn, in, out, p)
    BY DEF InTurn
  <1>2. RespLen \in Nat \ {0} /\ conn.rbuf \in Seq(Unit) /\ conn.sent \in Nat
    BY HttpAssumption DEF Conn
  <1>3. (d + 1) * RespLen = d * RespLen + RespLen /\ d * RespLen \in Nat
    BY <1>2, TimesNext
  <1>4. p.req # d + 2
    <2> SUFFICES ASSUME p.req = d + 2 PROVE FALSE
      OBVIOUS
    <2>1. p.req - 1 = d + 1
      OBVIOUS
    <2>2. Len(out) >= (d + 1) * RespLen
      BY <2>1
    <2>3. Len(out) = d * RespLen \/ (conn.sent < RespLen /\ Len(out) = d * RespLen + conn.sent)
      BY <1>1 DEF Waits, Answers
    <2> QED BY <1>2, <1>3, <2>2, <2>3
  <1>5. Waits(c, d, conn, in, out, p)
    BY <1>1, <1>4 DEF Answers
  <1>6. p.req = d + 1
    BY <1>4, <1>5 DEF Waits, Arrived
  <1> DEFINE units == Wire(Script[c][p.req])
             next == IF p.unit < Len(units) THEN [req |-> p.req, unit |-> p.unit + 1]
                                            ELSE [req |-> p.req + 1, unit |-> 1]
             s == conn.rbuf \o in
  <1>7. s \in Seq(Unit) /\ Arrived(c, d + 1, s, p)
    BY <1>2, <1>5 DEF Waits
  <1>8. units[p.unit] \in Unit /\ Arrived(c, d + 1, Append(s, units[p.unit]), next)
    <2> HIDE DEF s
    <2> QED BY <1>6, <1>7, ArrivesNext
  <1> HIDE DEF units, next
  <1>9. conn.rbuf \o Append(in, units[p.unit]) = Append(s, units[p.unit])
    BY <1>2, <1>8, ConcatUnits
  <1>10. Waits(c, d, conn, Append(in, units[p.unit]), out, next)
    BY <1>5, <1>8, <1>9 DEF Waits
  <1> QED BY <1>10 DEF InTurn, units, next

(* read_once() on a connection whose client waits takes the beginning of a *)
(* request, and process() is called for a whole one; a second closure for  *)
(* a request already under way finds nothing to read and leaves the        *)
(* response alone.                                                         *)
LEMMA ReadInTurn ==
  ASSUME PlainRequests, NEW c \in Sock, NEW conn \in Conn, NEW in \in Seq(Unit), NEW out,
         NEW p, InTurn(c, conn, in, out, p),
         NEW n \in ReadTakes(conn.rbuf, in), NEW gone
  PROVE  LET st == ReadState(conn.rbuf, in, n, gone)
             x == AfterRead(conn, in, n)
             rest == SubSeq(in, n + 1, Len(in))
         IN  /\ st \in {"READY", "AGAIN", "CLOSED"}
             /\ InTurn(c, IF st = "READY" THEN Process(x) ELSE x, rest, out, p)
  <1> DEFINE st == ReadState(conn.rbuf, in, n, gone)
             x == AfterRead(conn, in, n)
             rest == SubSeq(in, n + 1, Len(in))
             buf == conn.rbuf \o SubSeq(in, 1, n)
             v == ReadVerdict(buf)
  <1>1. PICK d \in Nat : Waits(c, d, conn, in, out, p) \/ Answers(c, d, conn, in, out, p)
    BY DEF InTurn
  <1>2. n \in 0..Len(in) /\ conn.rbuf \in Seq(Unit)
    BY ReadTakesPrefix DEF Conn
  <1>3. /\ SubSeq(in, 1, n) \in Seq(Unit) /\ rest \in Seq(Unit)
        /\ in = SubSeq(in, 1, n) \o rest
    BY <1>2, TakeAndLeave
  <1>4. x = [conn EXCEPT !.rbuf = buf]
    BY DEF AfterRead, Conn
  <1>5. st = IF n > 0 /\ v # "more" THEN v ELSE IF gone THEN "CLOSED" ELSE "AGAIN"
    BY DEF ReadState
  <1>6. CASE Answers(c, d, conn, in, out, p)
    <2>1. in = <<>> /\ n = 0
      BY <1>2, <1>6 DEF Answers
    <2>2. SubSeq(in, 1, n) = <<>> /\ rest = <<>>
      BY <2>1
    <2>3. buf = conn.rbuf
      BY <1>2, <1>3, <2>2, ConcatUnits
    <2>4. x = conn
      BY <1>4, <2>3 DEF Conn
    <2>5. st \in {"AGAIN", "CLOSED"}
      BY <1>5, <2>1
    <2>6. InTurn(c, x, rest, out, p)
      BY <1>6, <2>1, <2>2, <2>4 DEF InTurn
    <2> QED BY <2>5, <2>6
  <1>7. CASE Waits(c, d, conn, in, out, p)
    <2> DEFINE r == Script[c][d + 1]
               all == conn.rbuf \o in
    <2>1. buf \in Seq(Unit) /\ all = buf \o rest
      <3>1. buf \in Seq(Unit)
        BY <1>2, <1>3, ConcatUnits
      <3> DEFINE a == conn.rbuf
                 b == SubSeq(in, 1, n)
      <3>2. a \in Seq(Unit) /\ b \in Seq(Unit)
        BY <1>2, <1>3
      <3> HIDE DEF a, b, rest
      <3>3. (a \o b) \o rest = a \o (b \o rest)
        BY <1>3, <3>2, Regroup
      <3> QED BY <1>3, <3>1, <3>3 DEF a, b
    <2>2. Arrived(c, d + 1, all, p)
      BY <1>7 DEF Waits
    <2> HIDE DEF rest, buf, all
    <2>3. CASE buf = <<>> \/ n = 0
      <3>1. st \in {"AGAIN", "CLOSED"}
        BY <1>2, <1>5, <2>1, <2>3, VerdictOnSome
      <3>2. Waits(c, d, x, rest, out, p)
        BY <1>4, <1>7, <2>1, <2>2 DEF Waits, all, Conn
      <3> QED BY <3>1, <3>2 DEF InTurn, rest
    <2>4. CASE buf # <<>> /\ n # 0
      <3>1. all # <<>> /\ Len(all) = Len(buf) + Len(rest) /\ \A i \in 1..Len(buf) : all[i] = buf[i]
        BY <1>3, <2>1, <2>4 DEF rest
      <3>2. /\ d + 1 \in 1..Len(Script[c]) /\ Begins(all, r)
            /\ Len(all) = Len(Wire(r)) => p = [req |-> d + 2, unit |-> 1]
        BY <2>2, <3>1 DEF Arrived
      <3>3. r \in Req /\ Wire(r) \in Seq(Unit) /\ Len(Wire(r)) \in Nat
        BY <3>2, ScriptType, WireType
      <3>4. Begins(buf, r)
        <4>1. Len(buf) \in Nat /\ Len(rest) \in Nat
          BY <1>3, <2>1 DEF rest
        <4> QED BY <3>1, <3>2, <3>3, <4>1 DEF Begins
      <3>5. v \in {"more", "READY"} /\ (v = "READY" => buf = Wire(r))
        BY <2>1, <3>3, <3>4, BeginsVerdict
      <3>6. CASE st # "READY"
        <4>1. st \in {"AGAIN", "CLOSED"}
          BY <1>5, <3>5, <3>6
        <4>2. Waits(c, d, x, rest, out, p)
          BY <1>4, <1>7, <2>1, <2>2 DEF Waits, all, Conn
        <4> QED BY <4>1, <4>2 DEF InTurn, rest
      <3>7. CASE st = "READY"
        <4>1. buf = Wire(r)
          BY <1>5, <3>5, <3>7
        <4>2. Len(rest) = 0 /\ Len(all) = Len(Wire(r))
          <5>1. Len(buf) \in Nat /\ Len(rest) \in Nat /\ Len(all) <= Len(Wire(r))
            BY <1>3, <2>1, <3>2 DEF rest, Begins
          <5> QED BY <3>1, <3>3, <4>1, <5>1
        <4>3. rest = <<>>
          BY <1>3, <4>2 DEF rest
        <4>4. FrontReq(buf) = r
          BY <2>1, <2>4, <3>3, <3>4, BeginsParse
        <4> DEFINE y == Process(x)
        <4>5. /\ y.wbuf = [req |-> r, status |-> ProcessStatus(buf)]
              /\ y.sent = 0 /\ y.rbuf = buf
          BY <1>4, <4>4 DEF Process, Conn
        <4>6. y.wbuf # Nothing
          <5>1. ProcessStatus(buf) # ""
            BY <2>1, StatusType DEF Status
          <5>2. y.wbuf.status = ProcessStatus(buf) /\ Nothing.status = ""
            BY <4>5 DEF Nothing
          <5> HIDE DEF y
          <5> QED BY <5>1, <5>2, Zenon
        <4>7. 0 < RespLen /\ d * RespLen \in Nat
          BY HttpAssumption, TimesNext
        <4>8. Answers(c, d, y, rest, out, p)
          <5>1. Len(out) = d * RespLen + y.sent
            BY <1>7, <4>5, <4>7 DEF Waits
          <5>2. d + 1 <= Len(Script[c]) /\ p = [req |-> d + 2, unit |-> 1]
            BY <3>2, <4>2, ScriptType
          <5> HIDE DEF y
          <5> QED BY <4>1, <4>3, <4>5, <4>6, <4>7, <5>1, <5>2 DEF Answers
        <4> QED BY <3>7, <4>8 DEF InTurn, rest
      <3> QED BY <3>6, <3>7
    <2> QED BY <2>3, <2>4
  <1> QED BY <1>1, <1>6, <1>7

(* The units that write() adds continue the response. *)
LEMMA WriteIntact ==
  ASSUME NEW c \in Sock, NEW conn \in Conn, NEW in, NEW out \in Seq(ResponseUnit),
         NEW p, NEW d \in Nat, Answers(c, d, conn, in, out, p), Intact(c, out),
         NEW n \in Nat, conn.sent <= n, n <= RespLen
  PROVE  Intact(c, out \o Sent(conn, n))
  <1> DEFINE more == out \o Sent(conn, n)
             k == n - conn.sent
             r == Script[c][d + 1]
             at == d * RespLen
             good(i) == LET m == ((i - 1) \div RespLen) + 1 IN
               /\ m <= Len(Script[c])
               /\ more[i] = [req |-> Script[c][m], part |-> ((i - 1) % RespLen) + 1]
  <1>1. /\ conn.sent \in Nat /\ k \in Nat /\ Len(out) \in Nat /\ at \in Nat
        /\ RespLen \in Nat \ {0}
    BY HttpAssumption, TimesNext DEF Conn
  <1>2. Len(out) = at + conn.sent /\ d + 1 <= Len(Script[c]) /\ conn.wbuf.req = r
    BY DEF Answers
  <1>3. /\ Len(more) = Len(out) + k
        /\ \A i \in 1..Len(out) : more[i] = out[i]
        /\ \A j \in 1..k : more[Len(out) + j] = [req |-> r, part |-> conn.sent + j]
        /\ more \in Seq(ResponseUnit)
    <2>1. /\ more \in Seq(ResponseUnit)
          /\ Len(more) = Len(out) + k
          /\ \A i \in 1..Len(out) : more[i] = out[i]
          /\ \A j \in 1..k : more[Len(out) + j] = [req |-> conn.wbuf.req, part |-> conn.sent + j]
      BY SentUnits
    <2> HIDE DEF more, k, r
    <2> QED BY <1>2, <2>1
  <1>4. ASSUME NEW i \in 1..Len(out) PROVE good(i)
    BY <1>3 DEF Intact
  <1>5. ASSUME NEW j \in 1..k PROVE good(Len(out) + j)
    <2> DEFINE s == conn.sent + j - 1
               i == Len(out) + j
    <2>1. s \in Nat /\ s < RespLen /\ i - 1 = at + s /\ s + 1 = conn.sent + j
      <3> HIDE DEF at, more
      <3>1. j \in Nat \ {0} /\ j <= n - conn.sent
        BY <1>1
      <3> DEFINE b == conn.sent
                 o == Len(out)
      <3>2. b \in Nat /\ at \in Nat /\ o = at + b /\ n \in Nat /\ n <= RespLen /\ RespLen \in Nat
        BY <1>1, <1>2
      <3>3. j \in Nat \ {0} /\ j <= n - b
        BY <3>1
      <3> HIDE DEF b, o
      <3>4. b + j - 1 \in Nat /\ b + j - 1 < RespLen /\ o + j - 1 = at + (b + j - 1)
            /\ (b + j - 1) + 1 = b + j
        BY ONLY <3>2, <3>3
      <3> QED BY <3>4 DEF b, o
    <2>2. (at + s) \div RespLen = d /\ (at + s) % RespLen = s
      BY <1>1, <2>1, DivMod
    <2>3. more[i] = [req |-> r, part |-> s + 1]
      BY <1>3, <2>1
    <2> HIDE DEF i, s, more, at
    <2> QED BY <1>2, <2>1, <2>2, <2>3 DEF i
  <1>6. ASSUME NEW i \in 1..Len(more) PROVE good(i)
    <2>1. CASE i <= Len(out)
      <3>1. i \in 1..Len(out)
        BY <2>1
      <3> HIDE DEF good
      <3> QED BY <1>4, <3>1
    <2>2. CASE ~(i <= Len(out))
      <3>1. i - Len(out) \in 1..k /\ Len(out) + (i - Len(out)) = i
        <4> HIDE DEF k, more
        <4> QED BY <1>1, <1>3, <2>2
      <3> HIDE DEF good, more, k
      <3>2. good(Len(out) + (i - Len(out)))
        BY <1>5, <3>1
      <3> QED BY <3>1, <3>2
    <2> QED BY <2>1, <2>2
  <1>7. DOMAIN more = 1..Len(more)
    <2> HIDE DEF more
    <2> QED BY <1>3
  <1> QED BY <1>6, <1>7 DEF Intact

(* handle_write() continues the response of a connection, and once it is   *)
(* out reset_for_next_request() leaves nothing of the request.             *)
LEMMA WriteInTurn ==
  ASSUME PlainRequests, NEW c \in Sock, NEW conn \in Conn, NEW in,
         NEW out \in Seq(ResponseUnit), NEW p, InTurn(c, conn, in, out, p), Intact(c, out),
         NEW n \in Nat, conn.sent <= n, n <= WriteLen(conn)
  PROVE  LET more == out \o Sent(conn, n)
             next == ResetForNextRequest(conn)
         IN  /\ Intact(c, more)
             /\ n < WriteLen(conn) => InTurn(c, AfterWrite(conn, n), in, more, p)
             /\ n = WriteLen(conn) /\ conn.ka =>
                  ~HasCompleteRequest(next.rbuf) /\ InTurn(c, next, in, more, p)
  <1> DEFINE more == out \o Sent(conn, n)
             next == ResetForNextRequest(conn)
  <1>1. PICK d \in Nat : Waits(c, d, conn, in, out, p) \/ Answers(c, d, conn, in, out, p)
    BY DEF InTurn
  <1>2. conn.sent \in Nat /\ RespLen \in Nat \ {0} /\ conn.wbuf \in Response
    BY HttpAssumption DEF Conn
  <1>3. CASE Waits(c, d, conn, in, out, p)
    <2>1. WriteLen(conn) = 0 /\ n = 0 /\ ~conn.ka /\ conn.sent = 0
      BY <1>2, <1>3 DEF Waits, WriteLen
    <2>2. more \in Seq(ResponseUnit) /\ Len(more) = Len(out) /\ \A i \in 1..Len(out) : more[i] = out[i]
      BY <2>1, SentUnits
    <2> HIDE DEF more
    <2>3. more = out
      BY <2>2
    <2>4. Intact(c, more) /\ ~(n < WriteLen(conn)) /\ ~conn.ka
      BY <2>1, <2>3
    <2> QED BY <2>4 DEF more
  <1>4. CASE Answers(c, d, conn, in, out, p)
    <2> DEFINE r == Script[c][d + 1]
               w == Wire(r)
               q == Request[r]
    <2>1. WriteLen(conn) = RespLen
      BY <1>4 DEF Answers, WriteLen
    <2>2. Intact(c, more)
      BY <1>4, <2>1, WriteIntact
    <2>3. more \in Seq(ResponseUnit) /\ Len(more) = Len(out) + (n - conn.sent)
      BY SentUnits
    <2>4. Len(out) = d * RespLen + conn.sent /\ d * RespLen \in Nat /\ Len(out) \in Nat
      BY <1>2, <1>4, TimesNext DEF Answers
    <2> HIDE DEF more
    <2>5. Len(more) = d * RespLen + n
      BY <1>2, <2>3, <2>4
    <2>6. n < RespLen => Answers(c, d, AfterWrite(conn, n), in, more, p)
      BY <1>4, <2>5 DEF Answers, AfterWrite, Conn
    <2>7. d + 1 \in 1..Len(Script[c]) /\ r \in Req
      BY <1>4, ScriptType DEF Answers
    <2>8. /\ w \in Seq(Unit) /\ w # <<>> /\ Begins(w, r)
          /\ q.parts \in Nat /\ q.cl \in Nat /\ q.body \in Nat
          /\ Len(w) = q.parts + 1 + q.body
          /\ q.body <= q.cl /\ q.parts < HeadLimit /\ q.cl <= BodyLimit
          /\ HeadLimit + BodyLimit < SizeMod
          /\ HeadLimit \in Nat /\ BodyLimit \in Nat /\ SizeMod \in Nat \ {0}
      <3>1. w \in Seq(Unit) /\ Len(w) \in Nat \ {0}
        BY <2>7, WireType
      <3>2. q.parts \in Nat /\ q.cl \in Nat /\ q.body \in Nat /\ Len(w) = q.parts + 1 + q.body
        BY <2>7, RequestTypes, WireUnits
      <3>3. /\ q.parts < HeadLimit /\ q.cl <= BodyLimit
            /\ q.body <= IF q.wf /\ q.method = "POST" THEN q.cl ELSE 0
            /\ HeadLimit + BodyLimit < SizeMod
        BY <2>7 DEF PlainRequests
      <3> HIDE DEF q, w
      <3>4. w # <<>>
        BY <3>1
      <3>5. Begins(w, r)
        BY <3>1 DEF Begins, w
      <3> QED BY <3>1, <3>2, <3>3, <3>4, <3>5, HttpAssumption
    <2>9. conn.rbuf = w
      BY <1>4 DEF Answers
    <2> HIDE DEF r
    <2> DEFINE h == HeaderEnd(w)
               end == RequestEnd(h, ExtractContentLength(w, h))
    <2>10. h = q.parts + 1 /\ h # 0 /\ w[h].req = r
      <3>1. h = IF Len(w) > q.parts THEN q.parts + 1 ELSE 0
        BY <2>7, <2>8, BeginsParse
      <3>2. h # 0 => w[h].req = r
        BY <2>7, <2>8, BeginsParse
      <3> HIDE DEF h, q, w
      <3> QED BY <2>8, <3>1, <3>2
    <2>11. end = q.parts + 1 + q.cl
      <3> DEFINE a == q.parts + 1 + q.cl
      <3>1. a \in Nat /\ a < SizeMod
        <4>1. /\ q.parts \in Nat /\ q.cl \in Nat
              /\ q.parts < HeadLimit /\ q.cl <= BodyLimit
              /\ HeadLimit + BodyLimit < SizeMod
              /\ HeadLimit \in Nat /\ BodyLimit \in Nat /\ SizeMod \in Nat
          BY <2>8
        <4> HIDE DEF q
        <4> QED BY ONLY <4>1 DEF a
      <3> HIDE DEF a
      <3>2. a % SizeMod = a
        BY <2>8, <3>1, ModSmall
      <3> QED BY <2>10, <3>2 DEF RequestEnd, ExtractContentLength, a
    <2>12. ~(end < Len(w))
      <3> HIDE DEF end, q, w
      <3> QED BY <2>8, <2>11
    <2>13. next = [conn EXCEPT !.rbuf = SubSeq(w, Len(w) + 1, Len(w)),
                              !.wbuf = Nothing, !.sent = 0, !.ka = FALSE]
      <3> HIDE DEF h, end
      <3>1. next = [conn EXCEPT !.rbuf = SubSeq(w, (IF end < Len(w) THEN end ELSE Len(w)) + 1, Len(w)),
                                !.wbuf = Nothing, !.sent = 0, !.ka = FALSE]
        BY <2>9, <2>10 DEF ResetForNextRequest, Conn, h, end
      <3> QED BY <2>12, <3>1
    <2>14. SubSeq(w, Len(w) + 1, Len(w)) = <<>>
      <3> HIDE DEF w
      <3> QED BY <2>8
    <2>15. next.rbuf = <<>> /\ next.wbuf = Nothing /\ next.sent = 0 /\ ~next.ka
      BY <2>13, <2>14 DEF Conn
    <2>16. ~HasCompleteRequest(<<>>)
      <3>1. <<>> \in Seq(Unit) /\ Len(<<>>) = 0
        OBVIOUS
      <3>2. HeaderEnd(<<>>) \in 0..Len(<<>>)
        BY ONLY <3>1, HeaderEndType
      <3>3. HeaderEnd(<<>>) = 0
        BY <3>1, <3>2
      <3> QED BY <3>3 DEF HasCompleteRequest
    <2>17. ASSUME n = RespLen PROVE Waits(c, d + 1, next, in, more, p)
      <3>1. Len(more) = (d + 1) * RespLen
        BY <1>2, <2>5, <2>17, TimesNext
      <3>2. next.rbuf \o in = <<>> /\ p = [req |-> (d + 1) + 1, unit |-> 1]
        <4>1. in = <<>> /\ p = [req |-> d + 2, unit |-> 1]
          BY <1>4 DEF Answers
        <4>2. <<>> \o <<>> = <<>> /\ d + 2 = (d + 1) + 1
          OBVIOUS
        <4> QED BY <2>15, <4>1, <4>2
      <3> HIDE DEF next
      <3> QED BY <2>15, <3>1, <3>2 DEF Waits, Arrived
    <2> QED BY <2>1, <2>2, <2>6, <2>15, <2>16, <2>17 DEF InTurn, more
  <1> QED BY <1>1, <1>3, <1>4

(* init() leaves a new object as it is for the stream. *)
LEMMA FreshTurn ==
  ASSUME NEW c \in Sock, NEW s, NEW conn \in Conn,
         NEW in, NEW out, NEW p, InTurn(c, conn, in, out, p),
         conn.rbuf = <<>>, conn.wbuf = Nothing, conn.sent = 0, ~conn.ka
  PROVE  InTurn(c, InitConn(conn, s), in, out, p)
  <1>1. PICK d \in Nat : Waits(c, d, conn, in, out, p) \/ Answers(c, d, conn, in, out, p)
    BY DEF InTurn
  <1>2. Waits(c, d, conn, in, out, p)
    BY <1>1 DEF Answers
  <1>3. Waits(c, d, InitConn(conn, s), in, out, p)
    BY <1>2 DEF Waits, InitConn
  <1> QED BY <1>3 DEF InTurn

-----------------------------------------------------------------------------
(* The stream of every connection. *)

(* The main thread has begun to close f: it will not write to it any more. *)
Closes(f) == mpc \in {"del", "erase"} /\ cur.fd = f

(* A client that has no entry in users_ yet. *)
Unserved(c) ==
  c \in backlog \/ peer[c] = "new" \/ (mpc = "insert" /\ file[cur.fd] = c)

(* A socket is open under one descriptor at most, and under none before    *)
(* accept() returns it.                                                    *)
OneFdEach ==
  /\ \A f, g \in Fd : file[f] = file[g] /\ file[f] # NoSock => f = g
  /\ \A c \in Sock : c \in backlog \/ peer[c] = "new" => \A f \in Fd : file[f] # c
  /\ \A c \in backlog : peer[c] # "new"

(* Clients that wait for each answer never give handle_write() a second    *)
(* request to pass on, so only handle_read()'s closure is ever made.       *)
OnlyReads ==
  /\ mpc = "enqueue" => cur.kind = "read"
  /\ \A i \in 1..Len(tasks) : tasks[i].kind = "read"
  /\ \A w \in Worker : wpc[w] # "idle" => wtask[w].kind = "read"

(* Every connection that is not being closed is in turn with its client,   *)
(* and a client that has no connection yet is in turn with a new one.      *)
AnswersInTurn ==
  /\ \A f \in Fd : users[f] # NoConn /\ ~Closes(f) =>
       InTurn(file[f], users[f], inbox[file[f]], outbox[file[f]], pos[file[f]])
  /\ \A c \in Sock : Unserved(c) => InTurn(c, NewConn, inbox[c], outbox[c], pos[c])

(* What clients have received, the part of the invariant that matters. *)
AllIntact == \A c \in Sock : Intact(c, outbox[c])

(* The inductive invariant, together with ServerInv. *)
StreamInv == OneFdEach /\ OnlyReads /\ AnswersInTurn /\ AllIntact

(* No connection's part of the stream changes. *)
LEMMA TurnKept ==
  ASSUME AnswersInTurn, AllIntact, UNCHANGED <<file, users, inbox, outbox, pos>>,
         \A f \in Fd : Closes(f) => Closes(f)',
         \A c \in Sock : Unserved(c)' => Unserved(c)
  PROVE  AnswersInTurn' /\ AllIntact'
  <1>1. AllIntact'
    BY DEF AllIntact
  <1>2. ASSUME NEW f \in Fd, users'[f] # NoConn, ~Closes(f)'
        PROVE  InTurn(file'[f], users'[f], inbox'[file'[f]], outbox'[file'[f]], pos'[file'[f]])
    BY <1>2 DEF AnswersInTurn
  <1>3. ASSUME NEW c \in Sock, Unserved(c)'
        PROVE  InTurn(c, NewConn, inbox'[c], outbox'[c], pos'[c])
    BY <1>3 DEF AnswersInTurn
  <1> HIDE DEF InTurn
  <1> QED BY <1>1, <1>2, <1>3 DEF AnswersInTurn

(* An entry of users_ stands for a socket that no other entry stands for   *)
(* and whose client is not waiting to be accepted.                         *)
LEMMA OwnSocket ==
  ASSUME ServerInv, OneFdEach, NEW f \in Fd, users[f] # NoConn
  PROVE  /\ users[f] \in Conn /\ file[f] \in Sock /\ users[f].sock = file[f]
         /\ \A g \in Fd : g # f => file[g] # file[f]
         /\ ~Unserved(file[f])
  <1>1. users[f] \in Conn /\ users[f].sock = file[f] /\ file[f] \in Sock /\ file[f] # NoSock
    BY HttpAssumption DEF ServerInv, Typed, TypeOK, ConnsOK, Tables, BoundConns, OwnsFd
  <1>2. \A g \in Fd : g # f => file[g] # file[f]
    BY <1>1 DEF OneFdEach
  <1>3. ~(file[f] \in backlog \/ peer[file[f]] = "new")
    BY <1>1 DEF OneFdEach
  <1>4. ~(mpc = "insert" /\ file[cur.fd] = file[f])
    <2> SUFFICES ASSUME mpc = "insert", file[cur.fd] = file[f] PROVE FALSE
      OBVIOUS
    <2>1. cur.fd \in Fd /\ users[cur.fd] = NoConn
      BY DEF ServerInv, Typed, HasLocals, TaskRec, Tables, InsertsFresh
    <2> QED BY <1>2, <2>1
  <1> QED BY <1>1, <1>2, <1>3, <1>4 DEF Unserved

(* One connection's part of it changes. *)
LEMMA TurnMoves ==
  ASSUME ServerInv, StreamInv, NEW f \in Fd, users[f] # NoConn, UNCHANGED file,
         NEW d, users' = [users EXCEPT ![f] = d],
         \A b \in Sock : b # file[f] =>
           inbox'[b] = inbox[b] /\ outbox'[b] = outbox[b] /\ pos'[b] = pos[b],
         \/ Closes(f)'
         \/ InTurn(file[f], d, inbox'[file[f]], outbox'[file[f]], pos'[file[f]]),
         Intact(file[f], outbox'[file[f]]),
         \A g \in Fd : Closes(g) => Closes(g)',
         \A c \in Sock : Unserved(c)' => Unserved(c)
  PROVE  AnswersInTurn' /\ AllIntact'
  <1>1. /\ file[f] \in Sock /\ ~Unserved(file[f])
        /\ \A g \in Fd : g # f => file[g] # file[f]
    BY OwnSocket DEF StreamInv
  <1>2. users \in [Fd -> Conn \cup {NoConn}]
    BY DEF ServerInv, Typed, TypeOK, ConnsOK
  <1>3. AllIntact'
    <2> HIDE DEF Intact
    <2> QED BY <1>1 DEF StreamInv, AllIntact
  <1> HIDE DEF InTurn
  <1>4. ASSUME NEW g \in Fd, users'[g] # NoConn, ~Closes(g)'
        PROVE  InTurn(file'[g], users'[g], inbox'[file'[g]], outbox'[file'[g]], pos'[file'[g]])
    <2>1. CASE g = f
      BY <1>2, <1>4, <2>1
    <2>2. CASE g # f
      <3>1. users[g] # NoConn /\ users'[g] = users[g] /\ ~Closes(g)
        BY <1>2, <1>4, <2>2
      <3>2. file[g] \in Sock /\ file[g] # file[f] /\ file'[g] = file[g]
        BY <1>1, <2>2, <3>1, OwnSocket DEF StreamInv
      <3>3. /\ inbox'[file[g]] = inbox[file[g]]
            /\ outbox'[file[g]] = outbox[file[g]]
            /\ pos'[file[g]] = pos[file[g]]
        BY <3>2
      <3>4. InTurn(file[g], users[g], inbox[file[g]], outbox[file[g]], pos[file[g]])
        BY <3>1 DEF StreamInv, AnswersInTurn
      <3> QED BY <3>1, <3>2, <3>3, <3>4
    <2> QED BY <2>1, <2>2
  <1>5. ASSUME NEW c \in Sock, Unserved(c)'
        PROVE  InTurn(c, NewConn, inbox'[c], outbox'[c], pos'[c])
    <2>1. Unserved(c) /\ c # file[f]
      BY <1>1, <1>5
    <2>2. inbox'[c] = inbox[c] /\ outbox'[c] = outbox[c] /\ pos'[c] = pos[c]
      BY <2>1
    <2> QED BY <2>1, <2>2 DEF StreamInv, AnswersInTurn
  <1> QED BY <1>3, <1>4, <1>5 DEF AnswersInTurn

(* close_conn() takes the connection out of it. *)
LEMMA TurnErased ==
  ASSUME ServerInv, StreamInv, NEW f \in Fd, EraseConn(f),
         \A g \in Fd : g # f /\ Closes(g) => Closes(g)',
         (mpc # "insert" /\ mpc' # "insert") \/ UNCHANGED <<mpc, cur>>
  PROVE  OneFdEach' /\ AnswersInTurn' /\ AllIntact'
  <1>1. /\ users \in [Fd -> Conn \cup {NoConn}] /\ file \in [Fd -> Sock \cup {NoSock}]
        /\ inbox \in [Sock -> Seq(Unit)]
    BY DEF ServerInv, Typed, TypeOK, ConnsOK, KernelOK, NetOK
  <1>2. /\ users' = [users EXCEPT ![f] = NoConn]
        /\ UNCHANGED <<backlog, peer, pos, outbox>>
    BY DEF EraseConn
  <1>3. AllIntact'
    BY <1>2 DEF StreamInv, AllIntact
  <1> HIDE DEF InTurn
  <1>4. CASE users[f] = NoConn
    <2>1. UNCHANGED <<file, inbox>> /\ users' = users
      BY <1>1, <1>2, <1>4 DEF EraseConn
    <2>2. OneFdEach'
      BY <1>2, <2>1 DEF StreamInv, OneFdEach
    <2>3. ASSUME NEW g \in Fd, users'[g] # NoConn, ~Closes(g)'
          PROVE  InTurn(file'[g], users'[g], inbox'[file'[g]], outbox'[file'[g]], pos'[file'[g]])
      <3>1. g # f /\ ~Closes(g) /\ users[g] # NoConn
        BY <1>4, <2>1, <2>3
      <3> QED BY <1>2, <2>1, <3>1 DEF StreamInv, AnswersInTurn
    <2>4. ASSUME NEW c \in Sock, Unserved(c)'
          PROVE  InTurn(c, NewConn, inbox'[c], outbox'[c], pos'[c])
      <3>1. Unserved(c)
        BY <1>2, <2>1, <2>4 DEF Unserved
      <3> QED BY <1>2, <2>1, <3>1 DEF StreamInv, AnswersInTurn
    <2> QED BY <1>3, <2>2, <2>3, <2>4 DEF AnswersInTurn
  <1>5. CASE users[f] # NoConn
    <2>1. /\ file[f] \in Sock /\ ~Unserved(file[f])
          /\ \A g \in Fd : g # f => file[g] # file[f]
      BY <1>5, OwnSocket DEF StreamInv
    <2>2. file' = [file EXCEPT ![f] = NoSock] /\ inbox' = [inbox EXCEPT ![file[f]] = <<>>]
      BY <1>5 DEF EraseConn
    <2>3. OneFdEach'
      BY <1>1, <1>2, <2>2, HttpAssumption DEF StreamInv, OneFdEach, ServerInv, Typed, TypeOK, NetOK
    <2>4. ASSUME NEW g \in Fd, users'[g] # NoConn, ~Closes(g)'
          PROVE  InTurn(file'[g], users'[g], inbox'[file'[g]], outbox'[file'[g]], pos'[file'[g]])
      <3>1. g # f /\ ~Closes(g) /\ users'[g] = users[g] /\ users[g] # NoConn
        BY <1>1, <1>2, <2>4
      <3>2. file[g] \in Sock /\ file[g] # file[f] /\ file'[g] = file[g]
        BY <1>1, <2>1, <2>2, <3>1, OwnSocket DEF StreamInv
      <3>3. inbox'[file[g]] = inbox[file[g]]
        BY <1>1, <2>2, <3>2
      <3>4. InTurn(file[g], users[g], inbox[file[g]], outbox[file[g]], pos[file[g]])
        BY <3>1 DEF StreamInv, AnswersInTurn
      <3> QED BY <1>2, <3>1, <3>2, <3>3, <3>4
    <2>5. ASSUME NEW c \in Sock, Unserved(c)'
          PROVE  InTurn(c, NewConn, inbox'[c], outbox'[c], pos'[c])
      <3>1. Unserved(c)
        <4>1. CASE c \in backlog \/ peer[c] = "new"
          BY <4>1 DEF Unserved
        <4>2. CASE ~(c \in backlog \/ peer[c] = "new")
          <5>1. mpc' = "insert" /\ file'[cur'.fd] = c /\ UNCHANGED <<mpc, cur>>
            BY <1>2, <2>5, <4>2 DEF Unserved
          <5>2. cur.fd \in Fd
            BY <5>1 DEF ServerInv, Typed, HasLocals, TaskRec
          <5>3. file[cur.fd] = c
            BY <1>1, <2>2, <5>1, <5>2, HttpAssumption
          <5> QED BY <5>1, <5>3 DEF Unserved
        <4> QED BY <4>1, <4>2
      <3>2. c # file[f]
        BY <2>1, <3>1
      <3>3. inbox'[c] = inbox[c]
        BY <1>1, <2>2, <3>2
      <3> QED BY <1>2, <3>1, <3>3 DEF StreamInv, AnswersInTurn
    <2> QED BY <1>3, <2>3, <2>4, <2>5 DEF AnswersInTurn
  <1> QED BY <1>4, <1>5

-----------------------------------------------------------------------------
(* Its invariant, action by action. *)

(* No client has connected yet. *)
LEMMA StreamInit == Init => StreamInv
  <1> SUFFICES ASSUME Init PROVE StreamInv
    OBVIOUS
  <1>1. OneFdEach
    BY HttpAssumption DEF Init, OneFdEach
  <1>2. OnlyReads
    BY DEF Init, OnlyReads
  <1>3. AllIntact
    BY DEF Init, AllIntact, Intact
  <1>4. ASSUME NEW c \in Sock PROVE InTurn(c, NewConn, inbox[c], outbox[c], pos[c])
    <2>1. inbox[c] = <<>> /\ outbox[c] = <<>> /\ pos[c] = [req |-> 1, unit |-> 1]
      BY DEF Init
    <2>2. NewConn.rbuf \o <<>> = <<>> /\ Len(<<>>) = 0 /\ 0 * RespLen = 0
      BY HttpAssumption DEF NewConn
    <2>3. Waits(c, 0, NewConn, <<>>, <<>>, [req |-> 1, unit |-> 1])
      BY <2>2 DEF Waits, Arrived, NewConn
    <2> QED BY <2>1, <2>3 DEF InTurn
  <1>5. AnswersInTurn
    BY <1>4 DEF Init, AnswersInTurn
  <1> QED BY <1>1, <1>2, <1>3, <1>5 DEF StreamInv

(* The clients' actions. *)
LEMMA ClientTurns ==
  ASSUME ServerInv, ~Pipelining, StreamInv, NEW c \in Sock, ClientStep(c)
  PROVE  StreamInv'
  <1>1. UNCHANGED <<file, users, outbox, tasks, wtask, wpc, mpc, cur>>
    BY DEF ClientStep, Connect, Send, HalfClose, kernel, conns, pool, main
  <1>2. OnlyReads'
    BY <1>1 DEF StreamInv, OnlyReads
  <1>3. OneFdEach' /\ \A b \in Sock : Unserved(b)' => Unserved(b)
    <2>1. peer \in [Sock -> {"new", "open", "fin"}]
      BY DEF ServerInv, Typed, TypeOK, NetOK
    <2>2. CASE Connect(c)
      BY <1>1, <2>1, <2>2 DEF Connect, StreamInv, OneFdEach, Unserved
    <2>3. CASE Send(c)
      BY <1>1, <2>1, <2>3 DEF Send, StreamInv, OneFdEach, Unserved
    <2>4. CASE HalfClose(c)
      BY <1>1, <2>1, <2>4 DEF HalfClose, StreamInv, OneFdEach, Unserved
    <2> QED BY <2>2, <2>3, <2>4 DEF ClientStep
  <1>4. \A f \in Fd : Closes(f)' <=> Closes(f)
    BY <1>1 DEF Closes
  <1>5. CASE Connect(c) \/ HalfClose(c)
    <2>1. UNCHANGED <<file, users, inbox, outbox, pos>>
      BY <1>1, <1>5 DEF Connect, HalfClose
    <2> QED BY <1>2, <1>3, <1>4, <2>1, TurnKept DEF StreamInv
  <1>6. CASE Send(c)
    <2> DEFINE p == pos[c]
               units == Wire(Script[c][p.req])
               next == IF p.unit < Len(units)
                       THEN [req |-> p.req, unit |-> p.unit + 1]
                       ELSE [req |-> p.req + 1, unit |-> 1]
    <2>1. /\ p.req <= Len(Script[c])
          /\ Len(outbox[c]) >= (p.req - 1) * RespLen
          /\ inbox' = [inbox EXCEPT ![c] = Append(inbox[c], units[p.unit])]
          /\ pos' = [pos EXCEPT ![c] = next]
      BY <1>6 DEF Send, Answered, RequestsSent, ServerInv, Typed, TypeOK, NetOK
    <2>2. /\ inbox \in [Sock -> Seq(Unit)]
          /\ pos \in [Sock -> [req : Nat \ {0}, unit : Nat \ {0}]]
          /\ users \in [Fd -> Conn \cup {NoConn}]
      BY DEF ServerInv, Typed, TypeOK, NetOK, ConnsOK
    <2> HIDE DEF next, InTurn
    <2>3. /\ inbox'[c] = Append(inbox[c], units[p.unit]) /\ pos'[c] = next
          /\ \A b \in Sock \ {c} : inbox'[b] = inbox[b] /\ pos'[b] = pos[b]
      <3> HIDE DEF p, units
      <3> QED BY <2>1, <2>2
    <2>4. ASSUME NEW conn \in Conn, InTurn(c, conn, inbox[c], outbox[c], pos[c])
          PROVE  InTurn(c, conn, inbox'[c], outbox[c], pos'[c])
      <3>1. inbox[c] \in Seq(Unit)
        BY <2>2
      <3>2. p.req <= Len(Script[c]) /\ Len(outbox[c]) >= (p.req - 1) * RespLen
        BY <2>1
      <3>3. InTurn(c, conn, Append(inbox[c], units[p.unit]), outbox[c], next)
        BY ONLY <2>4, <3>1, <3>2, SendInTurn, conn \in Conn, c \in Sock DEF next
      <3> QED BY <2>3, <3>3
    <2> HIDE DEF p, units
    <2>5. ASSUME NEW f \in Fd, users'[f] # NoConn, ~Closes(f)'
          PROVE  InTurn(file'[f], users'[f], inbox'[file'[f]], outbox'[file'[f]], pos'[file'[f]])
      <3>1. users[f] # NoConn /\ users[f] \in Conn /\ ~Closes(f) /\ file[f] \in Sock
        BY <1>1, <1>4, <2>5, OwnSocket DEF StreamInv
      <3>2. InTurn(file[f], users[f], inbox[file[f]], outbox[file[f]], pos[file[f]])
        BY <3>1 DEF StreamInv, AnswersInTurn
      <3>3. CASE file[f] = c
        BY <1>1, <2>4, <3>1, <3>2, <3>3
      <3>4. CASE file[f] # c
        BY <1>1, <2>3, <3>1, <3>2, <3>4
      <3> QED BY <3>3, <3>4
    <2>6. ASSUME NEW b \in Sock, Unserved(b)'
          PROVE  InTurn(b, NewConn, inbox'[b], outbox'[b], pos'[b])
      <3>1. InTurn(b, NewConn, inbox[b], outbox[b], pos[b])
        BY <1>3, <2>6 DEF StreamInv, AnswersInTurn
      <3>2. CASE b = c
        BY <1>1, <2>4, <3>1, <3>2, NewConnType
      <3>3. CASE b # c
        BY <1>1, <2>3, <3>1, <3>3
      <3> QED BY <3>2, <3>3
    <2>7. AnswersInTurn'
      BY <2>5, <2>6 DEF AnswersInTurn
    <2>8. AllIntact'
      BY <1>1 DEF StreamInv, AllIntact
    <2> QED BY <1>2, <1>3, <2>7, <2>8 DEF StreamInv
  <1> QED BY <1>5, <1>6 DEF ClientStep

(* handle_accept(): the connection it inserts takes its client over as it  *)
(* waits in the backlog.                                                   *)
LEMMA AcceptingTurns ==
  ASSUME ServerInv, StreamInv, Accepting
  PROVE  StreamInv'
  <1> USE DEF StreamInv
  <1>1. OnlyReads'
    BY DEF Accepting, BeginAccept, AcceptDrop, AcceptAdd, InsertUser, AcceptEnd, Dispatch,
           OnlyReads, pool, main
  <1>2. \A g \in Fd : ~Closes(g)
    BY DEF Accepting, BeginAccept, AcceptDrop, AcceptAdd, InsertUser, AcceptEnd, Dispatch, Closes
  <1>3. UNCHANGED <<peer, pos, outbox>>
    BY DEF Accepting, BeginAccept, AcceptDrop, AcceptAdd, InsertUser, AcceptEnd, net
  <1>4. /\ users \in [Fd -> Conn \cup {NoConn}] /\ file \in [Fd -> Sock \cup {NoSock}]
        /\ inbox \in [Sock -> Seq(Unit)] /\ backlog \subseteq Sock
    BY DEF ServerInv, Typed, TypeOK, ConnsOK, KernelOK, NetOK
  <1>5. CASE BeginAccept \/ AcceptEnd
    <2>1. UNCHANGED <<file, users, inbox, backlog>> /\ mpc' # "insert"
      BY <1>5 DEF BeginAccept, AcceptEnd, kernel, net, conns
    <2>2. OneFdEach' /\ \A b \in Sock : Unserved(b)' => Unserved(b)
      BY <1>3, <2>1 DEF OneFdEach, Unserved
    <2> QED BY <1>1, <1>2, <1>3, <2>1, <2>2, TurnKept
  <1>6. ASSUME NEW c \in Sock, AcceptDrop(c) PROVE StreamInv'
    <2>1. /\ c \in backlog /\ backlog' = backlog \ {c} /\ UNCHANGED <<file, users, mpc, cur>>
          /\ inbox' = [inbox EXCEPT ![c] = <<>>] /\ mpc = "accept"
      BY <1>6 DEF AcceptDrop, kernel, conns, main
    <2>2. OneFdEach' /\ \A b \in Sock : Unserved(b)' => Unserved(b) /\ b # c
      BY <1>3, <2>1 DEF OneFdEach, Unserved
    <2>3. \A b \in Sock : b # c => inbox'[b] = inbox[b]
      BY <1>4, <2>1
    <2> HIDE DEF InTurn
    <2>4. ASSUME NEW f \in Fd, users'[f] # NoConn
          PROVE  InTurn(file'[f], users'[f], inbox'[file'[f]], outbox'[file'[f]], pos'[file'[f]])
      <3>1. file[f] \in Sock /\ file[f] # c
        BY <2>1, <2>4, OwnSocket DEF Unserved
      <3> QED BY <1>2, <1>3, <2>1, <2>3, <2>4, <3>1 DEF AnswersInTurn
    <2>5. ASSUME NEW b \in Sock, Unserved(b)'
          PROVE  InTurn(b, NewConn, inbox'[b], outbox'[b], pos'[b])
      BY <1>3, <2>2, <2>3, <2>5 DEF AnswersInTurn
    <2>6. AllIntact'
      BY <1>3 DEF AllIntact
    <2> QED BY <1>1, <2>2, <2>4, <2>5, <2>6 DEF AnswersInTurn
  <1>7. ASSUME NEW c \in Sock, NEW f \in Fd, AcceptAdd(c, f) PROVE StreamInv'
    <2>1. /\ c \in backlog /\ backlog' = backlog \ {c} /\ UNCHANGED <<users, inbox>>
          /\ file[f] = NoSock /\ file' = [file EXCEPT ![f] = c]
          /\ mpc = "accept" /\ mpc' = "insert" /\ cur'.fd = f
      BY <1>7 DEF AcceptAdd, FreeFd, conns
    <2>2. \A g \in Fd : g # f => file'[g] = file[g]
      BY <1>4, <2>1
    <2>3. file'[f] = c /\ \A g \in Fd : file[g] # c
      BY <1>4, <2>1 DEF OneFdEach
    <2>4. OneFdEach'
      BY <1>3, <2>1, <2>2, <2>3 DEF OneFdEach
    <2>5. \A b \in Sock : Unserved(b)' => Unserved(b)
      BY <1>3, <2>1, <2>3 DEF Unserved
    <2> HIDE DEF InTurn
    <2>6. ASSUME NEW g \in Fd, users'[g] # NoConn
          PROVE  InTurn(file'[g], users'[g], inbox'[file'[g]], outbox'[file'[g]], pos'[file'[g]])
      <3>1. users[g] # NoConn /\ g # f
        <4>1. file[g] \in Sock
          BY <2>1, <2>6, OwnSocket
        <4> QED BY <2>1, <2>6, <4>1, HttpAssumption
      <3> QED BY <1>2, <1>3, <2>1, <2>2, <3>1 DEF AnswersInTurn
    <2>7. ASSUME NEW b \in Sock, Unserved(b)'
          PROVE  InTurn(b, NewConn, inbox'[b], outbox'[b], pos'[b])
      BY <1>3, <2>1, <2>5, <2>7 DEF AnswersInTurn
    <2>8. AllIntact'
      BY <1>3 DEF AllIntact
    <2> QED BY <1>1, <2>4, <2>6, <2>7, <2>8 DEF AnswersInTurn
  <1>8. CASE InsertUser
    <2> DEFINE f == cur.fd
    <2>1. /\ UNCHANGED <<file, inbox, backlog>> /\ mpc = "insert" /\ mpc' = "accept"
          /\ f \in Fd /\ file[f] \in Sock /\ users[f] = NoConn
          /\ users' = [users EXCEPT ![f] = InitConn(NewConn, file[f])]
      BY <1>4, <1>8 DEF InsertUser, ServerInv, Typed, HasLocals, TaskRec, Tables, InsertsFresh,
                        kernel, net
    <2>2. OneFdEach' /\ \A b \in Sock : Unserved(b)' => Unserved(b)
      BY <1>3, <2>1 DEF OneFdEach, Unserved
    <2>3. Unserved(file[f])
      BY <2>1 DEF Unserved
    <2>4. NewConn.rbuf = <<>> /\ NewConn.wbuf = Nothing /\ NewConn.sent = 0 /\ ~NewConn.ka
      BY DEF NewConn
    <2>5. LET c == file[f]
          IN  InTurn(c, InitConn(NewConn, file[f]), inbox[c], outbox[c], pos[c])
      <3> HIDE DEF f
      <3>1. InTurn(file[f], NewConn, inbox[file[f]], outbox[file[f]], pos[file[f]])
        BY <2>1, <2>3 DEF AnswersInTurn
      <3> QED BY <2>1, <2>4, <3>1, FreshTurn, NewConnType
    <2> HIDE DEF f, InTurn
    <2>6. ASSUME NEW g \in Fd, users'[g] # NoConn
          PROVE  InTurn(file'[g], users'[g], inbox'[file'[g]], outbox'[file'[g]], pos'[file'[g]])
      <3>1. CASE g = f
        BY <1>3, <1>4, <2>1, <2>5, <3>1
      <3>2. CASE g # f
        BY <1>2, <1>3, <1>4, <2>1, <2>6, <3>2 DEF AnswersInTurn
      <3> QED BY <3>1, <3>2
    <2>7. ASSUME NEW b \in Sock, Unserved(b)'
          PROVE  InTurn(b, NewConn, inbox'[b], outbox'[b], pos'[b])
      BY <1>3, <2>1, <2>2, <2>7 DEF AnswersInTurn
    <2>8. AllIntact'
      BY <1>3 DEF AllIntact
    <2> QED BY <1>1, <2>2, <2>6, <2>7, <2>8 DEF AnswersInTurn
  <1> QED BY <1>5, <1>6, <1>7, <1>8 DEF Accepting

(* handle_write(), whichever way write() returns. *)
LEMMA HandleWriteTurns ==
  ASSUME ServerInv, PlainRequests, StreamInv, NEW f \in Fd, HandleWrite(f)
  PROVE  StreamInv'
  <1> DEFINE conn == users[f]
             c == file[f]
             more(n) == outbox[c] \o Sent(conn, n)
  <1>1. users[f] # NoConn
    BY DEF HandleWrite
  <1>2. conn \in Conn /\ c \in Sock
    BY <1>1, OwnSocket DEF StreamInv
  <1>3. /\ users \in [Fd -> Conn \cup {NoConn}]
        /\ outbox \in [Sock -> Seq(ResponseUnit)]
    BY DEF ServerInv, Typed, TypeOK, ConnsOK, NetOK, ResponseUnit
  <1>4. conn.sent \in Nat /\ WriteLen(conn) \in Nat
    BY <1>2, HttpAssumption DEF Conn, WriteLen
  <1>5. mpc = "loop" /\ UNCHANGED <<file, inbox, pos, peer, backlog, tasks, wtask, wpc>>
    BY DEF HandleWrite, HandleWriteAgain, HandleWriteError, HandleWriteReady, WriteBlock,
           Dispatch, kernel, pool
  <1>6. InTurn(c, conn, inbox[c], outbox[c], pos[c]) /\ Intact(c, outbox[c])
    BY <1>1, <1>2, <1>5 DEF StreamInv, AnswersInTurn, AllIntact, Closes
  <1>7. ASSUME NEW n \in Nat, conn.sent <= n, n <= WriteLen(conn)
        PROVE  /\ Intact(c, more(n))
               /\ n < WriteLen(conn) => InTurn(c, AfterWrite(conn, n), inbox[c], more(n), pos[c])
               /\ n = WriteLen(conn) /\ conn.ka =>
                    /\ ~HasCompleteRequest(ResetForNextRequest(conn).rbuf)
                    /\ InTurn(c, ResetForNextRequest(conn), inbox[c], more(n), pos[c])
    <2>1. outbox[c] \in Seq(ResponseUnit)
      BY <1>2, <1>3
    <2> HIDE DEF conn, c
    <2> QED BY <1>2, <1>6, <1>7, <2>1, WriteInTurn
  <1>8. conn.sent <= WriteLen(conn)
    <2>1. PICK d \in Nat : Waits(c, d, conn, inbox[c], outbox[c], pos[c])
                           \/ Answers(c, d, conn, inbox[c], outbox[c], pos[c])
      BY <1>6 DEF InTurn
    <2> HIDE DEF conn, c
    <2> QED BY <1>4, <2>1, HttpAssumption DEF Waits, Answers, WriteLen
  <1>9. \A g \in Fd : ~Closes(g)
    BY <1>5 DEF Closes
  <1> DEFINE step(n, x) ==
               /\ conn.sent <= n /\ n <= WriteLen(conn)
               /\ outbox' = [outbox EXCEPT ![c] = more(n)]
               /\ users' = [users EXCEPT ![f] = x]
               /\ mpc' # "enqueue" /\ mpc' # "insert"
               /\ \/ mpc' = "del" /\ cur'.fd = f
                  \/ n < WriteLen(conn) /\ x = AfterWrite(conn, n)
                  \/ n = WriteLen(conn) /\ conn.ka /\ x = ResetForNextRequest(conn)
  <1>10. \E n \in Nat : \E x : step(n, x)
    <2>1. CASE HandleWriteAgain(f)
      <3>1. PICK n \in users[f].sent + 1 .. WriteLen(users[f]) - 1 :
              /\ WriteBlock(f, n)
              /\ users' = [users EXCEPT ![f] = AfterWrite(@, n)]
              /\ UNCHANGED <<mpc, cur>>
        BY <2>1 DEF HandleWriteAgain
      <3>2. outbox' = [outbox EXCEPT ![c] = more(n)]
        BY <1>2, <1>3, <3>1 DEF WriteBlock
      <3>3. users' = [users EXCEPT ![f] = AfterWrite(conn, n)]
        BY <1>3, <3>1
      <3>4. n \in Nat /\ conn.sent <= n /\ n < WriteLen(conn) /\ n <= WriteLen(conn)
        BY <1>4
      <3>5. step(n, AfterWrite(conn, n))
        <4> HIDE DEF conn, more
        <4> QED BY <1>5, <3>1, <3>2, <3>3, <3>4
      <3> HIDE DEF step
      <3> QED BY <3>4, <3>5
    <2>2. CASE HandleWriteError(f)
      <3>1. outbox' = [outbox EXCEPT ![c] = more(conn.sent)]
        BY <1>2, <1>3, <2>2 DEF HandleWriteError, WriteBlock
      <3>2. users' = [users EXCEPT ![f] = conn]
        BY <1>3, <2>2 DEF HandleWriteError
      <3>3. mpc' = "del" /\ cur'.fd = f
        BY <2>2 DEF HandleWriteError, Local
      <3>4. step(conn.sent, conn)
        <4> HIDE DEF conn, more
        <4> QED BY <1>4, <1>8, <3>1, <3>2, <3>3
      <3> HIDE DEF step
      <3> QED BY <1>4, <3>4
    <2>3. CASE HandleWriteReady(f)
      <3> DEFINE next == ResetForNextRequest(conn)
                 len == WriteLen(conn)
      <3>1. outbox' = [outbox EXCEPT ![c] = more(len)]
        BY <1>2, <1>3, <2>3 DEF HandleWriteReady, WriteBlock
      <3>2. CASE conn.ka
        <4>1. ~HasCompleteRequest(next.rbuf)
          <5> HIDE DEF more
          <5> QED BY <1>4, <1>7, <1>8, <3>2
        <4>2. users' = [users EXCEPT ![f] = next] /\ mpc' = "arm"
          BY <2>3, <3>2, <4>1 DEF HandleWriteReady
        <4>3. step(len, next)
          <5> HIDE DEF conn, more
          <5> QED BY <1>4, <1>8, <3>1, <3>2, <4>2
        <4> HIDE DEF step
        <4> QED BY <1>4, <4>3
      <3>3. CASE ~conn.ka
        <4>1. /\ users' = [users EXCEPT ![f] = AfterWrite(conn, len)]
              /\ mpc' = "del" /\ cur'.fd = f
          BY <1>3, <2>3, <3>3 DEF HandleWriteReady, Local
        <4>2. step(len, AfterWrite(conn, len))
          <5> HIDE DEF conn, more
          <5> QED BY <1>4, <1>8, <3>1, <4>1
        <4> HIDE DEF step
        <4> QED BY <1>4, <4>2
      <3> QED BY <3>2, <3>3
    <2> QED BY <2>1, <2>2, <2>3 DEF HandleWrite
  <1>11. PICK n \in Nat : \E x : step(n, x)
    BY <1>10
  <1>12. PICK x : step(n, x)
    BY <1>11
  <1> HIDE DEF InTurn, Intact
  <1>13. /\ outbox'[c] = more(n) /\ \A b \in Sock : b # c => outbox'[b] = outbox[b]
    <2> HIDE DEF c, more
    <2> QED BY <1>2, <1>3, <1>11
  <1>14. Intact(c, more(n))
    BY <1>7, <1>12
  <1>15. \/ Closes(f)'
         \/ InTurn(c, x, inbox'[c], outbox'[c], pos'[c])
    <2>1. CASE mpc' = "del" /\ cur'.fd = f
      BY <2>1 DEF Closes
    <2>2. CASE \/ n < WriteLen(conn) /\ x = AfterWrite(conn, n)
               \/ n = WriteLen(conn) /\ conn.ka /\ x = ResetForNextRequest(conn)
      <3> HIDE DEF more, conn, c
      <3> QED BY <1>5, <1>7, <1>12, <1>13, <2>2
    <2> QED BY <1>12, <2>1, <2>2
  <1>16. \A b \in Sock : Unserved(b)' => Unserved(b)
    BY <1>5, <1>12 DEF Unserved
  <1>17. AnswersInTurn' /\ AllIntact'
    <2> HIDE DEF more, conn
    <2> QED BY <1>1, <1>5, <1>9, <1>12, <1>13, <1>14, <1>15, <1>16, TurnMoves
  <1>18. OneFdEach'
    BY <1>5 DEF StreamInv, OneFdEach
  <1>19. OnlyReads'
    BY <1>5, <1>12 DEF StreamInv, OnlyReads
  <1> QED BY <1>17, <1>18, <1>19 DEF StreamInv

(* The main thread. *)
LEMMA MainTurns ==
  ASSUME ServerInv, PlainRequests, StreamInv, MainStep
  PROVE  StreamInv'
  <1> USE DEF StreamInv
  <1>1. CASE EpollWait \/ HandleTimeout
    <2>1. /\ UNCHANGED <<file, users, inbox, outbox, pos, peer, backlog, cur, tasks, wtask, wpc>>
          /\ mpc \in {"loop", "timeout"} /\ mpc' \in {"loop", "timeout"}
      BY <1>1 DEF EpollWait, HandleTimeout, kernel, net, conns, pool
    <2>2. OneFdEach' /\ OnlyReads'
      BY <2>1 DEF OneFdEach, OnlyReads
    <2>3. /\ \A f \in Fd : Closes(f) => Closes(f)'
          /\ \A c \in Sock : Unserved(c)' => Unserved(c)
      BY <2>1 DEF Closes, Unserved
    <2> QED BY <2>1, <2>2, <2>3, TurnKept
  <1>2. ASSUME NEW f \in Fd, SweepClose(f) \/ HandleHup(f) PROVE StreamInv'
    <2>1. /\ UNCHANGED <<file, users, inbox, outbox, pos, peer, backlog, tasks, wtask, wpc>>
          /\ mpc = "loop" /\ mpc' = "erase"
      BY <1>2 DEF SweepClose, HandleHup, Dispatch, net, conns, pool
    <2>2. OneFdEach' /\ OnlyReads'
      BY <2>1 DEF OneFdEach, OnlyReads
    <2>3. /\ \A g \in Fd : Closes(g) => Closes(g)'
          /\ \A c \in Sock : Unserved(c)' => Unserved(c)
      BY <2>1 DEF Closes, Unserved
    <2> QED BY <2>1, <2>2, <2>3, TurnKept
  <1>3. CASE MainDel
    <2>1. /\ UNCHANGED <<file, users, inbox, outbox, pos, peer, backlog, cur, tasks, wtask, wpc>>
          /\ mpc = "del" /\ mpc' = "erase"
      BY <1>3 DEF MainDel, net, conns, pool
    <2>2. OneFdEach' /\ OnlyReads'
      BY <2>1 DEF OneFdEach, OnlyReads
    <2>3. /\ \A f \in Fd : Closes(f) => Closes(f)'
          /\ \A c \in Sock : Unserved(c)' => Unserved(c)
      BY <2>1 DEF Closes, Unserved
    <2> QED BY <2>1, <2>2, <2>3, TurnKept
  <1>4. CASE MainErase
    <2>1. /\ cur.fd \in Fd /\ EraseConn(cur.fd) /\ mpc = "erase" /\ mpc' = "loop"
          /\ UNCHANGED <<tasks, wtask, wpc>>
      BY <1>4 DEF MainErase, ServerInv, Typed, HasLocals, TaskRec, pool
    <2>2. \A g \in Fd : g # cur.fd => ~Closes(g)
      BY DEF Closes
    <2>3. OneFdEach' /\ AnswersInTurn' /\ AllIntact'
      <3> HIDE DEF StreamInv
      <3> QED BY <2>1, <2>2, TurnErased
    <2>4. OnlyReads'
      BY <2>1 DEF OnlyReads
    <2> QED BY <2>3, <2>4
  <1>5. ASSUME NEW f \in Fd, HandleGone(f) \/ HandleRead(f) PROVE StreamInv'
    <2>1. /\ UNCHANGED <<file, users, inbox, outbox, pos, peer, backlog, tasks, wtask, wpc>>
          /\ mpc = "loop" /\ mpc' \in {"loop", "enqueue"}
          /\ mpc' = "enqueue" => cur'.kind = "read"
      BY <1>5 DEF HandleGone, HandleRead, Dispatch, Local, kernel, net, conns, pool
    <2>2. OneFdEach' /\ OnlyReads'
      BY <2>1 DEF OneFdEach, OnlyReads
    <2>3. /\ \A g \in Fd : Closes(g) => Closes(g)'
          /\ \A c \in Sock : Unserved(c)' => Unserved(c)
      BY <2>1 DEF Closes, Unserved
    <2> QED BY <2>1, <2>2, <2>3, TurnKept
  <1>6. CASE EnqueueTask
    <2>1. /\ UNCHANGED <<file, users, inbox, outbox, pos, peer, backlog, wtask, wpc>>
          /\ mpc = "enqueue" /\ mpc' = "loop" /\ tasks' = Append(tasks, cur)
      BY <1>6 DEF EnqueueTask, Pool!Accept, kernel, net, conns
    <2>2. OneFdEach'
      BY <2>1 DEF OneFdEach
    <2>3. OnlyReads'
      <3>1. tasks \in Seq(TaskRec) /\ cur \in TaskRec
        BY <2>1 DEF ServerInv, Typed, TypeOK, PoolOK, HasLocals
      <3>2. \A i \in 1..Len(tasks') : tasks'[i].kind = "read"
        BY <2>1, <3>1 DEF OnlyReads
      <3> QED BY <2>1, <3>2 DEF OnlyReads
    <2>4. /\ \A g \in Fd : Closes(g) => Closes(g)'
          /\ \A c \in Sock : Unserved(c)' => Unserved(c)
      BY <2>1 DEF Closes, Unserved
    <2> QED BY <2>1, <2>2, <2>3, <2>4, TurnKept
  <1>7. CASE EnqueueFails \/ ArmRead
    <2>1. /\ UNCHANGED <<file, users, inbox, outbox, pos, peer, backlog, tasks, wtask, wpc>>
          /\ mpc \in {"enqueue", "arm"} /\ mpc' \in {"del", "loop"}
      BY <1>7 DEF EnqueueFails, ArmRead, kernel, net, conns, pool
    <2>2. OneFdEach' /\ OnlyReads'
      BY <2>1 DEF OneFdEach, OnlyReads
    <2>3. /\ \A g \in Fd : Closes(g) => Closes(g)'
          /\ \A c \in Sock : Unserved(c)' => Unserved(c)
      BY <2>1 DEF Closes, Unserved
    <2> QED BY <2>1, <2>2, <2>3, TurnKept
  <1> HIDE DEF StreamInv
  <1> QED BY <1>1, <1>2, <1>3, <1>4, <1>5, <1>6, <1>7, AcceptingTurns, HandleWriteTurns
          DEF MainStep, Closing, Serving

(* A worker goes on with its closure or ends it. *)
LEMMA ReadsKept ==
  ASSUME PoolOK, HasLocals, OnlyReads, NEW w \in Worker, UNCHANGED main,
         EndTask(w) \/ (wpc[w] # "idle" /\ \E pc \in {"arm", "del", "erase"} : GoTo(w, pc))
  PROVE  OnlyReads'
  <1>1. CASE EndTask(w)
    <2>1. UNCHANGED <<tasks, mpc, cur>> /\ wpc' = [wpc EXCEPT ![w] = "idle"]
          /\ \A v \in Worker : v # w => wtask'[v] = wtask[v]
      BY <1>1 DEF EndTask, Pool!Finish, PoolOK, main
    <2> QED BY <2>1 DEF OnlyReads, PoolOK
  <1>2. CASE wpc[w] # "idle" /\ \E pc \in {"arm", "del", "erase"} : GoTo(w, pc)
    <2>1. /\ UNCHANGED <<tasks, wtask, mpc, cur>>
          /\ \A v \in Worker : v # w => wpc'[v] = wpc[v]
      BY <1>2 DEF GoTo, PoolOK, main
    <2> QED BY <1>2, <2>1 DEF OnlyReads
  <1> QED BY <1>1, <1>2

(* The block under the lock in handle_read()'s closure. On a connection    *)
(* that the main thread is closing it may read what it likes.              *)
LEMMA RunReadTurns ==
  ASSUME ServerInv, PlainRequests, StreamInv, NEW w \in Worker, RunRead(w)
  PROVE  AnswersInTurn' /\ AllIntact'
  <1> DEFINE f == wtask[w].fd
             conn == users[f]
             c == file[f]
             in == inbox[c]
             gone == peer[c] = "fin"
             st(n) == ReadState(conn.rbuf, in, n, gone)
             x(n) == AfterRead(conn, in, n)
             d(n) == IF st(n) = "READY" THEN Process(x(n)) ELSE x(n)
             rest(n) == SubSeq(in, n + 1, Len(in))
  <1>1. f \in Fd /\ conn # NoConn
    BY TaskType DEF RunRead, Current, ServerInv, Typed
  <1>2. conn \in Conn /\ c \in Sock /\ conn.sock = c
    BY <1>1, OwnSocket DEF StreamInv
  <1>3. /\ users \in [Fd -> Conn \cup {NoConn}] /\ inbox \in [Sock -> Seq(Unit)]
        /\ in \in Seq(Unit)
    BY <1>2 DEF ServerInv, Typed, TypeOK, ConnsOK, NetOK
  <1>4. UNCHANGED <<file, backlog, peer, pos, outbox, mpc, cur>>
    BY DEF RunRead, kernel, main
  <1>5. PICK n \in ReadTakes(conn.rbuf, in) :
          /\ inbox' = [inbox EXCEPT ![c] = SubSeq(@, n + 1, Len(@))]
          /\ users' = [users EXCEPT ![f] =
               CASE st(n) = "READY" -> Process(x(n))
                 [] st(n) = "HEAD_TOO_LARGE" -> Refuse(x(n), "431")
                 [] st(n) = "BODY_TOO_LARGE" -> Refuse(x(n), "413")
                 [] OTHER -> x(n)]
    BY DEF RunRead
  <1>6. inbox'[c] = rest(n) /\ \A b \in Sock : b # c => inbox'[b] = inbox[b]
    <2> HIDE DEF c
    <2> QED BY <1>2, <1>3, <1>5
  <1>7. \A g \in Fd : Closes(g)' <=> Closes(g)
    BY <1>4 DEF Closes
  <1>8. \A b \in Sock : Unserved(b)' => Unserved(b)
    BY <1>4 DEF Unserved
  <1>9. Intact(c, outbox'[c])
    BY <1>2, <1>4 DEF StreamInv, AllIntact
  <1>10. CASE Closes(f)
    <2> DEFINE e == CASE st(n) = "READY" -> Process(x(n))
                      [] st(n) = "HEAD_TOO_LARGE" -> Refuse(x(n), "431")
                      [] st(n) = "BODY_TOO_LARGE" -> Refuse(x(n), "413")
                      [] OTHER -> x(n)
    <2>1. users' = [users EXCEPT ![f] = e]
      BY <1>5
    <2> HIDE DEF e, in, st, x, rest, conn
    <2>2. users[f] # NoConn
      BY <1>1 DEF conn
    <2> HIDE DEF f
    <2> QED BY <1>1, <1>4, <1>6, <1>7, <1>8, <1>9, <1>10, <2>1, <2>2, TurnMoves
  <1>11. CASE ~Closes(f)
    <2>1. InTurn(c, conn, in, outbox[c], pos[c])
      BY <1>1, <1>11 DEF StreamInv, AnswersInTurn
    <2>2. /\ st(n) \in {"READY", "AGAIN", "CLOSED"}
          /\ InTurn(c, d(n), rest(n), outbox[c], pos[c])
      <3> HIDE DEF conn, c, in, gone
      <3> QED BY <1>2, <1>3, <2>1, ReadInTurn
    <2>3. users' = [users EXCEPT ![f] = d(n)]
      <3> HIDE DEF f, conn, st, x
      <3> QED BY <1>5, <2>2
    <2> HIDE DEF d, in, st, x, rest, conn
    <2>4. users[f] # NoConn
      BY <1>1 DEF conn
    <2> HIDE DEF f
    <2> QED BY <1>1, <1>4, <1>6, <1>7, <1>8, <1>9, <2>2, <2>3, <2>4, TurnMoves
  <1> QED BY <1>10, <1>11

(* The workers. *)
LEMMA WorkerTurns ==
  ASSUME ServerInv, PlainRequests, StreamInv, NEW w \in Worker, WorkerStep(w)
  PROVE  StreamInv'
  <1> USE DEF StreamInv
  <1>1. PoolOK /\ HasLocals
    BY DEF ServerInv, Typed, TypeOK
  <1>2. CASE StartTask(w)
    <2>1. /\ tasks # <<>> /\ wtask' = [wtask EXCEPT ![w] = Head(tasks)] /\ tasks' = Tail(tasks)
          /\ UNCHANGED <<file, users, inbox, outbox, pos, peer, backlog, mpc, cur>>
          /\ wpc' = [wpc EXCEPT ![w] = "run"]
      BY <1>2 DEF StartTask, Pool!Start, kernel, net, conns, main
    <2>2. tasks \in Seq(TaskRec)
      BY <1>1 DEF PoolOK
    <2>3. Head(tasks).kind = "read" /\ \A i \in 1..Len(tasks') : tasks'[i].kind = "read"
      BY <2>1, <2>2 DEF OnlyReads
    <2>4. OnlyReads'
      BY <1>1, <2>1, <2>3 DEF OnlyReads, PoolOK
    <2>5. OneFdEach'
      BY <2>1 DEF OneFdEach
    <2>6. /\ \A g \in Fd : Closes(g) => Closes(g)'
          /\ \A c \in Sock : Unserved(c)' => Unserved(c)
      BY <2>1 DEF Closes, Unserved
    <2> QED BY <2>1, <2>4, <2>5, <2>6, TurnKept
  <1>3. CASE RunStale(w) \/ ArmWrite(w) \/ WorkerDel(w)
    <2>1. /\ UNCHANGED <<file, users, inbox, outbox, pos, peer, backlog, mpc, cur>>
          /\ UNCHANGED main /\ (EndTask(w) \/ (wpc[w] # "idle" /\ GoTo(w, "erase")))
      BY <1>3 DEF RunStale, ArmWrite, WorkerDel, kernel, net, conns, main
    <2>2. OnlyReads'
      BY <1>1, <2>1, ReadsKept
    <2>3. OneFdEach'
      BY <2>1 DEF OneFdEach
    <2>4. /\ \A g \in Fd : Closes(g) => Closes(g)'
          /\ \A c \in Sock : Unserved(c)' => Unserved(c)
      BY <2>1 DEF Closes, Unserved
    <2> QED BY <2>1, <2>2, <2>3, <2>4, TurnKept
  <1>4. CASE RunRead(w)
    <2>1. /\ UNCHANGED <<file, peer, backlog>> /\ UNCHANGED main
          /\ EndTask(w) \/ (wpc[w] # "idle" /\ \E pc \in {"arm", "del"} : GoTo(w, pc))
      <3>1. EndTask(w) \/ GoTo(w, "del") \/ GoTo(w, "arm")
        BY <1>4, RunReadEffect DEF ServerInv
      <3> QED BY <1>4, <3>1 DEF RunRead, kernel
    <2>2. OnlyReads'
      BY <1>1, <2>1, ReadsKept
    <2>3. OneFdEach'
      BY <2>1 DEF OneFdEach
    <2> HIDE DEF StreamInv
    <2>4. AnswersInTurn' /\ AllIntact'
      BY <1>4, RunReadTurns
    <2> QED BY <2>2, <2>3, <2>4 DEF StreamInv
  <1>5. CASE RunPipe(w)
    BY <1>5 DEF RunPipe, OnlyReads
  <1>6. CASE WorkerErase(w)
    <2>1. /\ wtask[w].fd \in Fd /\ EraseConn(wtask[w].fd) /\ EndTask(w) /\ UNCHANGED main
      BY <1>1, <1>6, TaskType DEF WorkerErase
    <2>2. UNCHANGED <<mpc, cur>>
      BY <2>1 DEF main
    <2>3. \A g \in Fd : Closes(g) => Closes(g)'
      BY <2>2 DEF Closes
    <2>4. OneFdEach' /\ AnswersInTurn' /\ AllIntact'
      <3> HIDE DEF StreamInv
      <3> QED BY <2>1, <2>2, <2>3, TurnErased
    <2>5. OnlyReads'
      BY <1>1, <2>1, ReadsKept
    <2> QED BY <2>4, <2>5
  <1> HIDE DEF StreamInv
  <1> QED BY <1>2, <1>3, <1>4, <1>5, <1>6 DEF WorkerStep

(* Every step. *)
LEMMA StreamStep ==
  ASSUME PlainRequests, ~Pipelining
  PROVE  ServerInv /\ StreamInv /\ [Next]_vars => StreamInv'
  <1> SUFFICES ASSUME ServerInv, StreamInv, [Next]_vars PROVE StreamInv'
    OBVIOUS
  <1>1. CASE UNCHANGED vars \/ \E f \in Fd : Idle(f)
    <2>1. UNCHANGED <<file, users, inbox, outbox, pos, peer, backlog, tasks, wtask, wpc, mpc, cur>>
      BY <1>1 DEF Idle, vars, kernel, net, conns, pool, main
    <2>2. OneFdEach' /\ OnlyReads'
      BY <2>1 DEF StreamInv, OneFdEach, OnlyReads
    <2>3. /\ \A g \in Fd : Closes(g) => Closes(g)'
          /\ \A c \in Sock : Unserved(c)' => Unserved(c)
      BY <2>1 DEF Closes, Unserved
    <2> QED BY <2>1, <2>2, <2>3, TurnKept DEF StreamInv
  <1> QED BY <1>1, ClientTurns, MainTurns, WorkerTurns DEF Next

(* With ServerInv, the invariant from which the next theorem follows. *)
THEOREM ServerStreamInvariant ==
  ASSUME PlainRequests, ~Pipelining
  PROVE  Spec => []StreamInv
  <1>1. ServerInv /\ StreamInv /\ [Next]_vars => StreamInv'
    BY StreamStep
  <1> QED BY <1>1, StreamInit, ServerInvariant, PTL DEF Spec

(* Clients that wait for each answer, and whose requests the limits admit, *)
(* receive the responses to their own requests, each whole, once and in    *)
(* order, for any number of clients, descriptors, workers and requests:    *)
(* however partial reads and writes, second read closures, closes and      *)
(* reuse of descriptors interleave.                                        *)
THEOREM ServerStreamIntegrity ==
  ASSUME PlainRequests, ~Pipelining
  PROVE  Spec => []StreamIntegrity
  <1>1. StreamInv => StreamIntegrity
    BY DEF StreamInv, AllIntact, Intact, StreamIntegrity
  <1> QED BY <1>1, ServerStreamInvariant, PTL
=============================================================================
