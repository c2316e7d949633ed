------------------------- MODULE SqlConnectionPool -------------------------
(***************************************************************************)
(* db/sql_connection_pool.cpp: a queue of open MySQL connections under one *)
(* mutex, with one condition variable for the threads that find it empty.  *)
(*                                                                         *)
(* A block that holds mutex_ is one action; notify_one(), notify_all() and *)
(* the mysql_close() calls made after it are actions of their own.  Each   *)
(* Thread takes a connection in the constructor of a Sql_Connection_Guard  *)
(* and gives it back in the destructor.  The owner is the thread of main() *)
(* that calls init(), once, before any guard exists, and shutdown() at the *)
(* end, which the destructor of the static pool also does; a guard may     *)
(* still be alive then, which the code provides for.                       *)
(***************************************************************************)
EXTENDS Naturals, Sequences, FiniteSets, Functions

CONSTANTS
  Conn,      (* MYSQL handles                                               *)
  Thread,    (* threads that use guards                                     *)
  PoolSize,  (* pool_size, positive                                         *)
  NoConn     (* nullptr                                                     *)

ASSUME SqlAssumption ==
  /\ PoolSize \in Nat \ {0}
  /\ NoConn \notin Conn
  /\ IsFiniteSet(Thread)

VARIABLES
  conns,     (* conns_                                                      *)
  inited,    (* inited_                                                     *)
  stopping,  (* stopping_                                                   *)
  open,      (* handles connected and not yet closed with mysql_close()     *)
  toClose,   (* to_close, the owner's local queue in shutdown()             *)
  opc,       (* where the owner is                                          *)
  tpc,       (* where each thread is                                        *)
  held       (* conn_ of each thread's guard                                *)

vars == <<conns, inited, stopping, open, toClose, opc, tpc, held>>

TypeOK ==
  /\ conns \in Seq(Conn)
  /\ inited \in BOOLEAN
  /\ stopping \in BOOLEAN
  /\ open \subseteq Conn
  /\ toClose \in Seq(Conn)
  /\ opc \in {"init", "up", "failed", "notify_all", "close", "done"}
  /\ tpc \in [Thread -> {"idle", "check", "wait", "use", "notify_one"}]
  /\ held \in [Thread -> Conn \cup {NoConn}]

Init ==
  /\ conns = <<>>
  /\ inited = FALSE
  /\ stopping = FALSE
  /\ open = {}
  /\ toClose = <<>>
  /\ opc = "init"
  /\ tpc = [t \in Thread |-> "idle"]
  /\ held = [t \in Thread |-> NoConn]

-----------------------------------------------------------------------------
(* init(): the handles s are connected and pushed before it returns.       *)

InitOk ==
  /\ opc = "init"
  /\ \E s \in [1..PoolSize -> Conn \ open] :
       /\ IsInjective(s)
       /\ conns' = conns \o s
       /\ open' = open \cup Range(s)
  /\ inited' = TRUE
  /\ stopping' = FALSE
  /\ opc' = "up"
  /\ UNCHANGED <<toClose, tpc, held>>

(* Mutant: the handle is pushed before the result of connecting is tested. *)
InitFailsPushed ==
  /\ opc = "init"
  /\ \E k \in 0..(PoolSize - 1) : \E s \in [1..k -> Conn \ open] :
       /\ IsInjective(s)
       /\ conns' = Append(conns \o s, NoConn)
       /\ open' = open \cup Range(s)
  /\ opc' = "failed"
  /\ UNCHANGED <<inited, stopping, toClose, tpc, held>>

(* mysql_init() or mysql_real_connect() fails after k handles: init()      *)
(* returns false and leaves them in conns_.                                *)
InitFails ==
  /\ opc = "init"
  /\ \E k \in 0..(PoolSize - 1) : \E s \in [1..k -> Conn \ open] :
       /\ IsInjective(s)
       /\ conns' = conns \o s
       /\ open' = open \cup Range(s)
  /\ opc' = "failed"
  /\ UNCHANGED <<inited, stopping, toClose, tpc, held>>

-----------------------------------------------------------------------------
(* get_connection()                                                        *)

BeginGet(t) ==
  /\ tpc[t] = "idle"
  /\ opc # "init"
  /\ tpc' = [tpc EXCEPT ![t] = "check"]
  /\ UNCHANGED <<conns, inited, stopping, open, toClose, opc, held>>

(* Mutant: front() without pop(). *)
TakeConnTwice(t) ==
  /\ tpc[t] = "check"
  /\ ~stopping
  /\ conns # <<>>
  /\ held' = [held EXCEPT ![t] = Head(conns)]
  /\ tpc' = [tpc EXCEPT ![t] = "use"]
  /\ UNCHANGED <<conns, inited, stopping, open, toClose, opc>>

TakeConn(t) ==
  /\ tpc[t] = "check"
  /\ ~stopping
  /\ conns # <<>>
  /\ held' = [held EXCEPT ![t] = Head(conns)]
  /\ conns' = Tail(conns)
  /\ tpc' = [tpc EXCEPT ![t] = "use"]
  /\ UNCHANGED <<inited, stopping, open, toClose, opc>>

(* Returns nullptr; the guard's destructor then does nothing. *)
GetNull(t) ==
  /\ tpc[t] = "check"
  /\ stopping
  /\ tpc' = [tpc EXCEPT ![t] = "idle"]
  /\ UNCHANGED <<conns, inited, stopping, open, toClose, opc, held>>

WaitConn(t) ==
  /\ tpc[t] = "check"
  /\ ~stopping
  /\ conns = <<>>
  /\ tpc' = [tpc EXCEPT ![t] = "wait"]
  /\ UNCHANGED <<conns, inited, stopping, open, toClose, opc, held>>

(* A spurious wake-up: the predicate is tested again. *)
Wake(t) ==
  /\ tpc[t] = "wait"
  /\ tpc' = [tpc EXCEPT ![t] = "check"]
  /\ UNCHANGED <<conns, inited, stopping, open, toClose, opc, held>>

-----------------------------------------------------------------------------
(* release_connection()                                                    *)

(* Mutant: notify_one() only if the queue was not empty. *)
ReleaseSilent(t) ==
  /\ tpc[t] = "use"
  /\ ~stopping
  /\ conns' = Append(conns, held[t])
  /\ held' = [held EXCEPT ![t] = NoConn]
  /\ tpc' = [tpc EXCEPT ![t] = IF conns = <<>> THEN "idle" ELSE "notify_one"]
  /\ UNCHANGED <<inited, stopping, open, toClose, opc>>

Release(t) ==
  /\ tpc[t] = "use"
  /\ ~stopping
  /\ conns' = Append(conns, held[t])
  /\ held' = [held EXCEPT ![t] = NoConn]
  /\ tpc' = [tpc EXCEPT ![t] = "notify_one"]
  /\ UNCHANGED <<inited, stopping, open, toClose, opc>>

(* Mutant: the connection goes back to the queue that shutdown() emptied. *)
ReleaseStoppingPush(t) ==
  /\ tpc[t] = "use"
  /\ stopping
  /\ conns' = Append(conns, held[t])
  /\ held' = [held EXCEPT ![t] = NoConn]
  /\ tpc' = [tpc EXCEPT ![t] = "notify_one"]
  /\ UNCHANGED <<inited, stopping, open, toClose, opc>>

(* After shutdown(): the connection is closed instead. *)
ReleaseStopping(t) ==
  /\ tpc[t] = "use"
  /\ stopping
  /\ open' = open \ {held[t]}
  /\ held' = [held EXCEPT ![t] = NoConn]
  /\ tpc' = [tpc EXCEPT ![t] = "idle"]
  /\ UNCHANGED <<conns, inited, stopping, toClose, opc>>

Waiters == {t \in Thread : tpc[t] = "wait"}

NotifyOne(t) ==
  /\ tpc[t] = "notify_one"
  /\ \/ \E u \in Waiters : tpc' = [tpc EXCEPT ![t] = "idle", ![u] = "check"]
     \/ Waiters = {} /\ tpc' = [tpc EXCEPT ![t] = "idle"]
  /\ UNCHANGED <<conns, inited, stopping, open, toClose, opc, held>>

-----------------------------------------------------------------------------
(* shutdown().  A call that finds stopping_ set changes nothing.           *)

(* Mutant: straight to the closing, without notify_all(). *)
ShutdownSwapSilent ==
  /\ opc \in {"up", "failed"}
  /\ ~stopping
  /\ stopping' = TRUE
  /\ inited' = FALSE
  /\ toClose' = conns
  /\ conns' = <<>>
  /\ opc' = "close"
  /\ UNCHANGED <<open, tpc, held>>

(* Mutant: after a failed init() nothing is closed. *)
ShutdownSwapInited ==
  /\ opc \in {"up", "failed"}
  /\ ~stopping
  /\ stopping' = TRUE
  /\ inited' = FALSE
  /\ toClose' = IF inited THEN conns ELSE <<>>
  /\ conns' = <<>>
  /\ opc' = "notify_all"
  /\ UNCHANGED <<open, tpc, held>>

ShutdownSwap ==
  /\ opc \in {"up", "failed"}
  /\ ~stopping
  /\ stopping' = TRUE
  /\ inited' = FALSE
  /\ toClose' = conns
  /\ conns' = <<>>
  /\ opc' = "notify_all"
  /\ UNCHANGED <<open, tpc, held>>

NotifyAll ==
  /\ opc = "notify_all"
  /\ tpc' = [t \in Thread |-> IF t \in Waiters THEN "check" ELSE tpc[t]]
  /\ opc' = "close"
  /\ UNCHANGED <<conns, inited, stopping, open, toClose, held>>

CloseNext ==
  /\ opc = "close"
  /\ toClose # <<>>
  /\ open' = open \ {Head(toClose)}
  /\ toClose' = Tail(toClose)
  /\ UNCHANGED <<conns, inited, stopping, opc, tpc, held>>

ShutdownEnd ==
  /\ opc = "close"
  /\ toClose = <<>>
  /\ opc' = "done"
  /\ UNCHANGED <<conns, inited, stopping, open, toClose, tpc, held>>

-----------------------------------------------------------------------------
OwnerStep == InitOk \/ InitFails \/ ShutdownSwap \/ NotifyAll \/ CloseNext \/ ShutdownEnd

ThreadStep(t) ==
  \/ BeginGet(t)
  \/ TakeConn(t) \/ GetNull(t) \/ WaitConn(t) \/ Wake(t)
  \/ Release(t) \/ ReleaseStopping(t) \/ NotifyOne(t)

Next == OwnerStep \/ \E t \in Thread : ThreadStep(t)

Spec == Init /\ [][Next]_vars

(* The scheduler runs every thread that can run, and a guard does not live *)
(* for ever.  Nobody is obliged to begin a get or a shutdown.              *)
Fairness ==
  /\ WF_vars(NotifyAll \/ CloseNext \/ ShutdownEnd)
  /\ \A t \in Thread :
       WF_vars(TakeConn(t) \/ GetNull(t) \/ Release(t) \/ ReleaseStopping(t) \/ NotifyOne(t))

FairSpec == Spec /\ Fairness

-----------------------------------------------------------------------------
Places == conns \o toClose

(* Every open connection is in exactly one place, the pool's queue, the    *)
(* queue being closed or one thread's guard, and nothing else is there: no *)
(* connection is leaked, shared by two threads, used after mysql_close()   *)
(* or closed twice.                                                        *)
OnePlaceEach ==
  /\ IsInjective(Places)
  /\ \A t, u \in Thread : t # u /\ held[t] # NoConn => held[u] # held[t]
  /\ \A t \in Thread : held[t] \notin Range(Places)
  /\ open = Range(Places) \cup {held[t] : t \in {u \in Thread : held[u] # NoConn}}

(* No lost wake-up: while somebody sleeps there are at least as many       *)
(* threads about to test the queue, or to notify, as connections in it.    *)
WaiterHasAWaker ==
  Waiters # {} =>
    Len(conns) <= Cardinality({t \in Thread : tpc[t] \in {"check", "notify_one"}})

(* Nobody sleeps through shutdown(), except until its notify_all().        *)
StopHasAWaker == stopping /\ Waiters # {} => opc = "notify_all"

(* When shutdown() has returned, the only open connections are those that  *)
(* guards still hold, even if init() had failed half way.                  *)
NothingLeaks ==
  opc = "done" =>
    open = {held[t] : t \in {u \in Thread : held[u] # NoConn}}

(* Once shutdown() has begun, every connection is closed in the end.       *)
ShutdownClosesAll == stopping ~> open = {}

(* Once shutdown() has begun, no thread is kept in get_connection().       *)
ShutdownFreesWaiters ==
  \A t \in Thread : (stopping /\ tpc[t] = "wait") ~> tpc[t] = "idle"
=============================================================================
