----------------------------- MODULE TaskQueue -----------------------------
(***************************************************************************)
(* What ThreadPool (thread_pool/thread_pool.cpp) promises to its caller,   *)
(* without its mutex, its condition variable or its thread bookkeeping: a  *)
(* bounded FIFO of tasks served by a fixed set of workers.  An accepted    *)
(* task is taken by exactly one worker, tasks are taken in the order in    *)
(* which they were accepted, nothing is accepted once the pool is          *)
(* stopping, and stopping does not discard what was accepted.              *)
(*                                                                         *)
(* The module is used twice: ThreadPool is shown to implement it, and      *)
(* WebServer uses its actions for the pool it schedules its tasks on.      *)
(***************************************************************************)
EXTENDS Naturals, Sequences

CONSTANTS
  Task,      (* the closures handed to enqueue()           *)
  Worker,    (* the threads of workers_                    *)
  MaxTasks,  (* max_tasks_                                 *)
  NoTask     (* what an idle worker holds                  *)

VARIABLES
  tasks,     (* tasks_, the deque of accepted tasks         *)
  running,   (* the task each worker has taken, or NoTask   *)
  stopping   (* stopping_                                   *)

vars == <<tasks, running, stopping>>

Init ==
  /\ tasks = <<>>
  /\ running = [w \in Worker |-> NoTask]
  /\ stopping = FALSE

HasRoom == Len(tasks) < MaxTasks

(* enqueue() returns true. *)
Accept(t) ==
  /\ ~stopping
  /\ HasRoom
  /\ tasks' = Append(tasks, t)
  /\ UNCHANGED running
  /\ stopping' = stopping

(* A worker moves the front of the deque into its local task. *)
Start(w) ==
  /\ running[w] = NoTask
  /\ tasks # <<>>
  /\ running' = [running EXCEPT ![w] = Head(tasks)]
  /\ tasks' = Tail(tasks)
  /\ stopping' = stopping

(* The task returned or threw; the worker goes back to its loop. *)
Finish(w) ==
  /\ running[w] # NoTask
  /\ running' = [running EXCEPT ![w] = NoTask]
  /\ UNCHANGED tasks
  /\ stopping' = stopping

(* shutdown() refuses new tasks from now on. *)
Stop ==
  /\ ~stopping
  /\ stopping' = TRUE
  /\ UNCHANGED <<tasks, running>>

Next ==
  \/ \E t \in Task : Accept(t)
  \/ \E w \in Worker : Start(w) \/ Finish(w)
  \/ Stop

(* Workers keep serving: a task that waits is eventually taken by someone, *)
(* and a task that was taken eventually ends.                              *)
Spec ==
  /\ Init
  /\ [][Next]_vars
  /\ WF_vars(\E w \in Worker : Start(w))
  /\ \A w \in Worker : WF_vars(Finish(w))

SafetySpec == Init /\ [][Next]_vars
=============================================================================
