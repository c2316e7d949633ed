----------------------------- MODULE ThreadPool -----------------------------
(***************************************************************************)
(* thread_pool/thread_pool.cpp: worker threads that share a deque of tasks *)
(* under one mutex and sleep on one condition variable.                    *)
(*                                                                         *)
(* A block that holds mutex_ is one action.  What the code does after it   *)
(* has released the mutex (notify_one, notify_all, join, running the task) *)
(* is an action of its own, because every other thread may run in between. *)
(* cv_.wait(lock, pred) is the predicate test made with the mutex held; if *)
(* it fails the thread joins the waiters atomically, and a waiter leaves   *)
(* only when it is notified or wakes up spuriously, to test again.         *)
(***************************************************************************)
EXTENDS Naturals, Sequences

CONSTANTS
  Task,      (* closures offered to enqueue()                               *)
  Worker,    (* the thread_count threads started by the constructor         *)
  Client,    (* threads that call enqueue() and shutdown()                  *)
  MaxTasks,  (* max_tasks_                                                  *)
  NoTask     (* the empty std::function, and what an idle worker holds      *)

ASSUME PoolAssumption ==
  /\ Worker # {}
  /\ MaxTasks \in Nat
  /\ NoTask \notin Task

VARIABLES
  tasks,     (* tasks_                                                      *)
  stopping,  (* stopping_                                                   *)
  wpc,       (* where each worker is in worker_loop()                       *)
  running,   (* the local variable task of each worker                      *)
  cpc,       (* where each client is in enqueue() or shutdown()             *)
  joined,    (* shutdown() has joined and cleared workers_                  *)
  accepted,  (* history: tasks for which the push was made, in order        *)
  started,   (* history: tasks taken by workers, in order                   *)
  refused    (* history: tasks for which enqueue() returned false           *)

vars == <<tasks, stopping, wpc, running, cpc, joined, accepted, started, refused>>

TypeOK ==
  /\ tasks \in Seq(Task)
  /\ stopping \in BOOLEAN
  /\ wpc \in [Worker -> {"check", "wait", "run", "exit"}]
  /\ running \in [Worker -> Task \cup {NoTask}]
  /\ cpc \in [Client -> {"idle", "notify_one", "notify_all", "join"}]
  /\ joined \in BOOLEAN
  /\ accepted \in Seq(Task)
  /\ started \in Seq(Task)
  /\ refused \in SUBSET (Task \cup {NoTask})

(* The constructor: every worker enters worker_loop() with nothing queued. *)
Init ==
  /\ tasks = <<>>
  /\ stopping = FALSE
  /\ wpc = [w \in Worker |-> "check"]
  /\ running = [w \in Worker |-> NoTask]
  /\ cpc = [c \in Client |-> "idle"]
  /\ joined = FALSE
  /\ accepted = <<>>
  /\ started = <<>>
  /\ refused = {}

-----------------------------------------------------------------------------
(* enqueue().  Each task is offered once: a refused task is not retried    *)
(* (its WebServer caller closes the connection instead).                   *)

NotOffered(t) ==
  /\ t \notin refused
  /\ \A i \in DOMAIN accepted : accepted[i] # t

(* Mutant: the empty function is not rejected. *)
EnqueuePushNull(c, t) ==
  /\ cpc[c] = "idle"
  /\ NotOffered(t)
  /\ ~stopping
  /\ Len(tasks) < MaxTasks
  /\ tasks' = Append(tasks, t)
  /\ accepted' = Append(accepted, t)
  /\ cpc' = [cpc EXCEPT ![c] = "notify_one"]
  /\ UNCHANGED <<stopping, wpc, running, joined, started, refused>>

(* Mutant: one task more than max_tasks_. *)
EnqueuePushOver(c, t) ==
  /\ cpc[c] = "idle"
  /\ t \in Task
  /\ NotOffered(t)
  /\ ~stopping
  /\ Len(tasks) <= MaxTasks
  /\ tasks' = Append(tasks, t)
  /\ accepted' = Append(accepted, t)
  /\ cpc' = [cpc EXCEPT ![c] = "notify_one"]
  /\ UNCHANGED <<stopping, wpc, running, joined, started, refused>>

(* Mutant: notify_one() is called only when the queue was not empty. *)
EnqueuePushSilent(c, t) ==
  /\ cpc[c] = "idle"
  /\ t \in Task
  /\ NotOffered(t)
  /\ ~stopping
  /\ Len(tasks) < MaxTasks
  /\ tasks' = Append(tasks, t)
  /\ accepted' = Append(accepted, t)
  /\ cpc' = [cpc EXCEPT ![c] = IF tasks = <<>> THEN "idle" ELSE "notify_one"]
  /\ UNCHANGED <<stopping, wpc, running, joined, started, refused>>

EnqueuePush(c, t) ==
  /\ cpc[c] = "idle"
  /\ t \in Task
  /\ NotOffered(t)
  /\ ~stopping
  /\ Len(tasks) < MaxTasks
  /\ tasks' = Append(tasks, t)
  /\ accepted' = Append(accepted, t)
  /\ cpc' = [cpc EXCEPT ![c] = "notify_one"]
  /\ UNCHANGED <<stopping, wpc, running, joined, started, refused>>

EnqueueRefuse(c, t) ==
  /\ cpc[c] = "idle"
  /\ NotOffered(t)
  /\ \/ t = NoTask
     \/ stopping
     \/ Len(tasks) >= MaxTasks
  /\ refused' = refused \cup {t}
  /\ UNCHANGED <<tasks, stopping, wpc, running, cpc, joined, accepted, started>>

Waiters == {w \in Worker : wpc[w] = "wait"}

(* cv_.notify_one() wakes one waiter, whichever the library picks, and is  *)
(* lost when nobody waits.                                                 *)
NotifyOne(c) ==
  /\ cpc[c] = "notify_one"
  /\ cpc' = [cpc EXCEPT ![c] = "idle"]
  /\ \/ \E w \in Waiters : wpc' = [wpc EXCEPT ![w] = "check"]
     \/ Waiters = {} /\ UNCHANGED wpc
  /\ UNCHANGED <<tasks, stopping, running, joined, accepted, started, refused>>

-----------------------------------------------------------------------------
(* shutdown().  A call made while stopping_ is already set returns at once *)
(* and changes nothing, so it has no action.                               *)

(* Mutant: shutdown() joins without notify_all(). *)
ShutdownStopSilent(c) ==
  /\ cpc[c] = "idle"
  /\ ~stopping
  /\ stopping' = TRUE
  /\ cpc' = [cpc EXCEPT ![c] = "join"]
  /\ UNCHANGED <<tasks, wpc, running, joined, accepted, started, refused>>

ShutdownStop(c) ==
  /\ cpc[c] = "idle"
  /\ ~stopping
  /\ stopping' = TRUE
  /\ cpc' = [cpc EXCEPT ![c] = "notify_all"]
  /\ UNCHANGED <<tasks, wpc, running, joined, accepted, started, refused>>

NotifyAll(c) ==
  /\ cpc[c] = "notify_all"
  /\ wpc' = [w \in Worker |-> IF w \in Waiters THEN "check" ELSE wpc[w]]
  /\ cpc' = [cpc EXCEPT ![c] = "join"]
  /\ UNCHANGED <<tasks, stopping, running, joined, accepted, started, refused>>

Join(c) ==
  /\ cpc[c] = "join"
  /\ \A w \in Worker : wpc[w] = "exit"
  /\ joined' = TRUE
  /\ cpc' = [cpc EXCEPT ![c] = "idle"]
  /\ UNCHANGED <<tasks, stopping, wpc, running, accepted, started, refused>>

-----------------------------------------------------------------------------
(* worker_loop().  The predicate of the wait is stopping_ || !tasks_.empty(). *)

(* Mutant: the predicate forgets stopping_. *)
WorkerWaitDeaf(w) ==
  /\ wpc[w] = "check"
  /\ tasks = <<>>
  /\ wpc' = [wpc EXCEPT ![w] = "wait"]
  /\ UNCHANGED <<tasks, stopping, running, cpc, joined, accepted, started, refused>>

(* Mutant: the wait has no predicate. *)
WorkerWaitBlind(w) ==
  /\ wpc[w] = "check"
  /\ ~stopping
  /\ wpc' = [wpc EXCEPT ![w] = "wait"]
  /\ UNCHANGED <<tasks, stopping, running, cpc, joined, accepted, started, refused>>

WorkerWait(w) ==
  /\ wpc[w] = "check"
  /\ ~stopping
  /\ tasks = <<>>
  /\ wpc' = [wpc EXCEPT ![w] = "wait"]
  /\ UNCHANGED <<tasks, stopping, running, cpc, joined, accepted, started, refused>>

WorkerWake(w) ==
  /\ wpc[w] = "wait"
  /\ wpc' = [wpc EXCEPT ![w] = "check"]
  /\ UNCHANGED <<tasks, stopping, running, cpc, joined, accepted, started, refused>>

(* Mutant: stopping_ alone ends the loop. *)
WorkerExitEarly(w) ==
  /\ wpc[w] = "check"
  /\ stopping
  /\ wpc' = [wpc EXCEPT ![w] = "exit"]
  /\ UNCHANGED <<tasks, stopping, running, cpc, joined, accepted, started, refused>>

WorkerExit(w) ==
  /\ wpc[w] = "check"
  /\ stopping
  /\ tasks = <<>>
  /\ wpc' = [wpc EXCEPT ![w] = "exit"]
  /\ UNCHANGED <<tasks, stopping, running, cpc, joined, accepted, started, refused>>

(* Mutant: the task is taken from the back. *)
WorkerTakeLast(w) ==
  /\ wpc[w] = "check"
  /\ tasks # <<>>
  /\ running' = [running EXCEPT ![w] = tasks[Len(tasks)]]
  /\ started' = Append(started, tasks[Len(tasks)])
  /\ tasks' = SubSeq(tasks, 1, Len(tasks) - 1)
  /\ wpc' = [wpc EXCEPT ![w] = "run"]
  /\ UNCHANGED <<stopping, cpc, joined, accepted, refused>>

WorkerTake(w) ==
  /\ wpc[w] = "check"
  /\ tasks # <<>>
  /\ running' = [running EXCEPT ![w] = Head(tasks)]
  /\ started' = Append(started, Head(tasks))
  /\ tasks' = Tail(tasks)
  /\ wpc' = [wpc EXCEPT ![w] = "run"]
  /\ UNCHANGED <<stopping, cpc, joined, accepted, refused>>

(* task() returned, or threw and the exception was caught: both ways the   *)
(* worker loops, and the local task dies with the iteration.               *)
WorkerRun(w) ==
  /\ wpc[w] = "run"
  /\ wpc' = [wpc EXCEPT ![w] = "check"]
  /\ running' = [running EXCEPT ![w] = NoTask]
  /\ UNCHANGED <<tasks, stopping, cpc, joined, accepted, started, refused>>

-----------------------------------------------------------------------------
ClientStep(c) ==
  \/ \E t \in Task \cup {NoTask} : EnqueuePush(c, t) \/ EnqueueRefuse(c, t)
  \/ NotifyOne(c)
  \/ ShutdownStop(c)
  \/ NotifyAll(c)
  \/ Join(c)

WorkerStep(w) ==
  \/ WorkerWait(w)
  \/ WorkerWake(w)
  \/ WorkerExit(w)
  \/ WorkerTake(w)
  \/ WorkerRun(w)

Next ==
  \/ \E c \in Client : ClientStep(c)
  \/ \E w \in Worker : WorkerStep(w)

Spec == Init /\ [][Next]_vars

(* The scheduler runs every thread that can run, and tasks terminate.  No  *)
(* fairness is given to the callers' decision to enqueue or to shut down,  *)
(* nor to spurious wake-ups.                                               *)
Fairness ==
  /\ \A c \in Client : WF_vars(NotifyOne(c) \/ NotifyAll(c) \/ Join(c))
  /\ \A w \in Worker : WF_vars(WorkerExit(w) \/ WorkerTake(w) \/ WorkerRun(w))

FairSpec == Spec /\ Fairness

-----------------------------------------------------------------------------
(* No task is lost, duplicated or overtaken: what workers have taken       *)
(* followed by what is still queued is what was accepted, in order.        *)
FifoExactlyOnce == accepted = started \o tasks

(* No lost wake-up: a queued task never faces only sleeping workers, unless *)
(* the client that pushed a task has still to call notify_one(), which the *)
(* code does after it has released the mutex.                              *)
TaskHasAWaker ==
  tasks # <<>> =>
    \/ \E w \in Worker : wpc[w] \in {"check", "run"}
    \/ \E c \in Client : cpc[c] = "notify_one"

(* The same for shutdown(): a worker sleeps through stopping_ only while   *)
(* notify_all() is still to come.                                          *)
StopHasAWaker ==
  (stopping /\ \E w \in Worker : wpc[w] = "wait") =>
    \E c \in Client : cpc[c] = "notify_all"

(* When the shutdown() that joins has returned, every accepted task has    *)
(* been run to its end: stopping drains the queue instead of dropping it.  *)
ShutdownDrains ==
  joined => /\ started = accepted
            /\ \A w \in Worker : wpc[w] = "exit" /\ running[w] = NoTask

(* Every accepted task is eventually taken by a worker.                    *)
AcceptedIsServed ==
  \A t \in Task : (\E i \in DOMAIN tasks : tasks[i] = t) ~>
                    \E i \in DOMAIN started : started[i] = t

(* shutdown() returns: once it has begun, the workers drain and exit.      *)
ShutdownReturns == stopping ~> joined

(* The pool implements the abstract bounded queue, its liveness included.  *)
Queue == INSTANCE TaskQueue
QueueSpec == Queue!Spec
=============================================================================
