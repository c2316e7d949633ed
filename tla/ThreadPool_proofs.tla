------------------------- MODULE ThreadPool_proofs -------------------------
(***************************************************************************)
(* Proofs about ThreadPool, for every set of tasks, workers and clients    *)
(* and every queue limit: its safety invariants, by one inductive          *)
(* invariant, and the safety part of "it implements TaskQueue".            *)
(***************************************************************************)
EXTENDS ThreadPool, TLAPS

(* A worker leaves worker_loop() only when the pool is stopping and the    *)
(* queue is empty, and stays empty since nothing is accepted any more.     *)
ExitIsDrained ==
  \A w \in Worker : wpc[w] = "exit" => stopping /\ tasks = <<>>

(* A worker holds a task exactly while it runs it. *)
RunsWhatItHolds ==
  \A w \in Worker : running[w] # NoTask <=> wpc[w] = "run"

JoinedAfterExit ==
  joined => \A w \in Worker : wpc[w] = "exit"

(* The inductive invariant: ShutdownDrains follows from it. *)
PoolInv ==
  /\ TypeOK
  /\ FifoExactlyOnce
  /\ TaskHasAWaker
  /\ StopHasAWaker
  /\ ExitIsDrained
  /\ RunsWhatItHolds
  /\ JoinedAfterExit

-----------------------------------------------------------------------------
(* Facts about sequences that the actions on the deque rest on. *)

(* Taking the head of the queue moves it to the end of what was started. *)
LEMMA HeadMoves ==
  ASSUME NEW S, NEW s \in Seq(S), NEW q \in Seq(S), q # <<>>
  PROVE  /\ Head(q) \in S
         /\ Tail(q) \in Seq(S)
         /\ Append(s, Head(q)) \o Tail(q) = s \o q
  OBVIOUS

(* Accepting a task extends the queue and the record alike. *)
LEMMA AppendMoves ==
  ASSUME NEW S, NEW s \in Seq(S), NEW q \in Seq(S), NEW e \in S
  PROVE  /\ Append(q, e) \in Seq(S)
         /\ Append(s \o q, e) = s \o Append(q, e)
         /\ Append(q, e) # <<>>
  OBVIOUS

LEMMA EmptyMoves ==
  ASSUME NEW S, NEW s \in Seq(S)
  PROVE  s \o <<>> = s
  OBVIOUS

-----------------------------------------------------------------------------
LEMMA PoolInit == Init => PoolInv
  <1> SUFFICES ASSUME Init PROVE PoolInv
    OBVIOUS
  <1> USE PoolAssumption DEF Init
  <1>1. TypeOK
    <2>1. <<>> \in Seq(Task)
      OBVIOUS
    <2> QED BY <2>1, Zenon DEF TypeOK
  <1>2. FifoExactlyOnce
    BY DEF FifoExactlyOnce
  <1>3. TaskHasAWaker /\ StopHasAWaker
    BY DEF TaskHasAWaker, StopHasAWaker
  <1>4. ExitIsDrained /\ RunsWhatItHolds /\ JoinedAfterExit
    BY DEF ExitIsDrained, RunsWhatItHolds, JoinedAfterExit
  <1> QED BY <1>1, <1>2, <1>3, <1>4 DEF PoolInv

-----------------------------------------------------------------------------
(* Every step keeps the invariant: one lemma per group of conjuncts, and   *)
(* in it one step per action.                                              *)

LEMMA TypeStep == TypeOK /\ [Next]_vars => TypeOK'
  <1> SUFFICES ASSUME TypeOK, [Next]_vars PROVE TypeOK'
    OBVIOUS
  <1> USE PoolAssumption
  <1>1. ASSUME NEW c \in Client, NEW t \in Task \cup {NoTask}, EnqueuePush(c, t)
        PROVE  TypeOK'
    <2>1. tasks' \in Seq(Task) /\ accepted' \in Seq(Task)
      BY <1>1, AppendMoves DEF EnqueuePush, TypeOK
    <2> QED BY <1>1, <2>1 DEF EnqueuePush, TypeOK
  <1>2. ASSUME NEW c \in Client, NEW t \in Task \cup {NoTask}, EnqueueRefuse(c, t)
        PROVE  TypeOK'
    BY <1>2 DEF EnqueueRefuse, TypeOK
  <1>3. ASSUME NEW c \in Client, NotifyOne(c) PROVE TypeOK'
    BY <1>3 DEF NotifyOne, TypeOK
  <1>4. ASSUME NEW c \in Client, ShutdownStop(c) PROVE TypeOK'
    BY <1>4 DEF ShutdownStop, TypeOK
  <1>5. ASSUME NEW c \in Client, NotifyAll(c) PROVE TypeOK'
    BY <1>5 DEF NotifyAll, TypeOK
  <1>6. ASSUME NEW c \in Client, Join(c) PROVE TypeOK'
    BY <1>6 DEF Join, TypeOK
  <1>7. ASSUME NEW w \in Worker, WorkerWait(w) PROVE TypeOK'
    BY <1>7 DEF WorkerWait, TypeOK
  <1>8. ASSUME NEW w \in Worker, WorkerWake(w) PROVE TypeOK'
    BY <1>8 DEF WorkerWake, TypeOK
  <1>9. ASSUME NEW w \in Worker, WorkerExit(w) PROVE TypeOK'
    BY <1>9 DEF WorkerExit, TypeOK
  <1>10. ASSUME NEW w \in Worker, WorkerTake(w) PROVE TypeOK'
    <2>1. /\ tasks' \in Seq(Task)
          /\ started' \in Seq(Task)
          /\ Head(tasks) \in Task
      BY <1>10, HeadMoves, AppendMoves DEF WorkerTake, TypeOK
    <2> QED BY <1>10, <2>1 DEF WorkerTake, TypeOK
  <1>11. ASSUME NEW w \in Worker, WorkerRun(w) PROVE TypeOK'
    BY <1>11 DEF WorkerRun, TypeOK
  <1>12. ASSUME UNCHANGED vars PROVE TypeOK'
    BY <1>12 DEF vars, TypeOK
  <1> QED
    BY <1>1, <1>2, <1>3, <1>4, <1>5, <1>6, <1>7, <1>8, <1>9, <1>10, <1>11, <1>12
    DEF Next, ClientStep, WorkerStep

(* Only a push and a take touch the queue and its records. *)
LEMMA FifoStep == TypeOK /\ FifoExactlyOnce /\ [Next]_vars => FifoExactlyOnce'
  <1> SUFFICES ASSUME TypeOK, FifoExactlyOnce, [Next]_vars
      PROVE  FifoExactlyOnce'
    OBVIOUS
  <1>1. ASSUME NEW c \in Client, NEW t \in Task \cup {NoTask}, EnqueuePush(c, t)
        PROVE  FifoExactlyOnce'
    <2>1. accepted' = Append(started \o tasks, t) /\ tasks' = Append(tasks, t)
      BY <1>1 DEF EnqueuePush, FifoExactlyOnce
    <2>2. t \in Task /\ started' = started
      BY <1>1 DEF EnqueuePush
    <2>3. started \in Seq(Task) /\ tasks \in Seq(Task)
      BY DEF TypeOK
    <2>4. Append(started \o tasks, t) = started \o Append(tasks, t)
      BY <2>2, <2>3
    <2> QED BY <2>1, <2>2, <2>4 DEF FifoExactlyOnce
  <1>2. ASSUME NEW w \in Worker, WorkerTake(w) PROVE FifoExactlyOnce'
    BY <1>2, HeadMoves DEF WorkerTake, TypeOK, FifoExactlyOnce
  <1>3. ASSUME UNCHANGED <<tasks, accepted, started>> PROVE FifoExactlyOnce'
    BY <1>3 DEF FifoExactlyOnce
  <1> QED
    BY <1>1, <1>2, <1>3
   
    DEF Next, ClientStep, WorkerStep, vars, EnqueueRefuse, NotifyOne, ShutdownStop,
        NotifyAll, Join, WorkerWait, WorkerWake, WorkerExit, WorkerRun

(* Workers exit, hold tasks and are joined as the loop prescribes. *)
LEMMA LoopStep ==
  PoolInv /\ [Next]_vars => (ExitIsDrained /\ RunsWhatItHolds /\ JoinedAfterExit)'
  <1> SUFFICES ASSUME PoolInv, [Next]_vars
      PROVE  (ExitIsDrained /\ RunsWhatItHolds /\ JoinedAfterExit)'
    OBVIOUS
  <1> USE PoolAssumption DEF PoolInv
  <1>1. ASSUME NEW c \in Client, NEW t \in Task \cup {NoTask}, EnqueuePush(c, t)
        PROVE  (ExitIsDrained /\ RunsWhatItHolds /\ JoinedAfterExit)'
    BY <1>1
    DEF EnqueuePush, TypeOK, Waiters, ExitIsDrained, RunsWhatItHolds, JoinedAfterExit
  <1>2. ASSUME NEW c \in Client, NEW t \in Task \cup {NoTask}, EnqueueRefuse(c, t)
        PROVE  (ExitIsDrained /\ RunsWhatItHolds /\ JoinedAfterExit)'
    BY <1>2
    DEF EnqueueRefuse, TypeOK, Waiters, ExitIsDrained, RunsWhatItHolds, JoinedAfterExit
  <1>3. ASSUME NEW c \in Client, NotifyOne(c)
        PROVE  (ExitIsDrained /\ RunsWhatItHolds /\ JoinedAfterExit)'
    BY <1>3
    DEF NotifyOne, TypeOK, Waiters, ExitIsDrained, RunsWhatItHolds, JoinedAfterExit
  <1>4. ASSUME NEW c \in Client, ShutdownStop(c)
        PROVE  (ExitIsDrained /\ RunsWhatItHolds /\ JoinedAfterExit)'
    BY <1>4
    DEF ShutdownStop, TypeOK, Waiters, ExitIsDrained, RunsWhatItHolds, JoinedAfterExit
  <1>5. ASSUME NEW c \in Client, NotifyAll(c)
        PROVE  (ExitIsDrained /\ RunsWhatItHolds /\ JoinedAfterExit)'
    BY <1>5
    DEF NotifyAll, TypeOK, Waiters, ExitIsDrained, RunsWhatItHolds, JoinedAfterExit
  <1>6. ASSUME NEW c \in Client, Join(c)
        PROVE  (ExitIsDrained /\ RunsWhatItHolds /\ JoinedAfterExit)'
    BY <1>6
    DEF Join, TypeOK, Waiters, ExitIsDrained, RunsWhatItHolds, JoinedAfterExit
  <1>7. ASSUME NEW w \in Worker, WorkerWait(w)
        PROVE  (ExitIsDrained /\ RunsWhatItHolds /\ JoinedAfterExit)'
    BY <1>7
    DEF WorkerWait, TypeOK, Waiters, ExitIsDrained, RunsWhatItHolds, JoinedAfterExit
  <1>8. ASSUME NEW w \in Worker, WorkerWake(w)
        PROVE  (ExitIsDrained /\ RunsWhatItHolds /\ JoinedAfterExit)'
    BY <1>8
    DEF WorkerWake, TypeOK, Waiters, ExitIsDrained, RunsWhatItHolds, JoinedAfterExit
  <1>9. ASSUME NEW w \in Worker, WorkerExit(w)
        PROVE  (ExitIsDrained /\ RunsWhatItHolds /\ JoinedAfterExit)'
    BY <1>9
    DEF WorkerExit, TypeOK, Waiters, ExitIsDrained, RunsWhatItHolds, JoinedAfterExit
  <1>10. ASSUME NEW w \in Worker, WorkerTake(w)
         PROVE  (ExitIsDrained /\ RunsWhatItHolds /\ JoinedAfterExit)'
    <2>1. Head(tasks) # NoTask
      BY <1>10, HeadMoves DEF WorkerTake, TypeOK
    <2> QED BY <1>10, <2>1
    DEF WorkerTake, TypeOK, ExitIsDrained, RunsWhatItHolds, JoinedAfterExit
  <1>11. ASSUME NEW w \in Worker, WorkerRun(w)
         PROVE  (ExitIsDrained /\ RunsWhatItHolds /\ JoinedAfterExit)'
    BY <1>11
    DEF WorkerRun, TypeOK, Waiters, ExitIsDrained, RunsWhatItHolds, JoinedAfterExit
  <1>12. ASSUME UNCHANGED vars
         PROVE  (ExitIsDrained /\ RunsWhatItHolds /\ JoinedAfterExit)'
    BY <1>12
    DEF vars, TypeOK, Waiters, ExitIsDrained, RunsWhatItHolds, JoinedAfterExit
  <1> QED
    BY <1>1, <1>2, <1>3, <1>4, <1>5, <1>6, <1>7, <1>8, <1>9, <1>10, <1>11, <1>12
    DEF Next, ClientStep, WorkerStep

(* No wake-up is lost.  The case that matters is a notify_one() that finds *)
(* nobody waiting: if tasks are queued no worker has exited, so one of     *)
(* them, which exist, is on its way to the queue.                          *)
LEMMA WakeStep == PoolInv /\ [Next]_vars => (TaskHasAWaker /\ StopHasAWaker)'
  <1> SUFFICES ASSUME PoolInv, [Next]_vars
      PROVE  (TaskHasAWaker /\ StopHasAWaker)'
    OBVIOUS
  <1> USE PoolAssumption DEF PoolInv
  <1>1. ASSUME NEW c \in Client, NEW t \in Task \cup {NoTask}, EnqueuePush(c, t)
        PROVE  (TaskHasAWaker /\ StopHasAWaker)'
    BY <1>1 DEF EnqueuePush, TypeOK, Waiters, TaskHasAWaker, StopHasAWaker
  <1>2. ASSUME NEW c \in Client, NEW t \in Task \cup {NoTask}, EnqueueRefuse(c, t)
        PROVE  (TaskHasAWaker /\ StopHasAWaker)'
    BY <1>2 DEF EnqueueRefuse, TypeOK, Waiters, TaskHasAWaker, StopHasAWaker
  <1>3. ASSUME NEW c \in Client, NotifyOne(c)
        PROVE  (TaskHasAWaker /\ StopHasAWaker)'
    <2>1. CASE \E w \in Waiters : wpc' = [wpc EXCEPT ![w] = "check"]
      BY <1>3, <2>1 DEF NotifyOne, TypeOK, Waiters, TaskHasAWaker, StopHasAWaker
    <2>2. CASE Waiters = {} /\ UNCHANGED wpc
      <3>1. tasks # <<>> => \E w \in Worker : wpc[w] \in {"check", "run"}
        BY <2>2 DEF Waiters, TypeOK, ExitIsDrained
      <3> QED BY <1>3, <2>2, <3>1
      DEF NotifyOne, TypeOK, TaskHasAWaker, StopHasAWaker
    <2> QED BY <1>3, <2>1, <2>2 DEF NotifyOne
  <1>4. ASSUME NEW c \in Client, ShutdownStop(c)
        PROVE  (TaskHasAWaker /\ StopHasAWaker)'
    BY <1>4 DEF ShutdownStop, TypeOK, Waiters, TaskHasAWaker, StopHasAWaker
  <1>5. ASSUME NEW c \in Client, NotifyAll(c)
        PROVE  (TaskHasAWaker /\ StopHasAWaker)'
    BY <1>5 DEF NotifyAll, TypeOK, Waiters, TaskHasAWaker, StopHasAWaker
  <1>6. ASSUME NEW c \in Client, Join(c) PROVE (TaskHasAWaker /\ StopHasAWaker)'
    BY <1>6 DEF Join, TypeOK, Waiters, TaskHasAWaker, StopHasAWaker
  <1>7. ASSUME NEW w \in Worker, WorkerWait(w)
        PROVE  (TaskHasAWaker /\ StopHasAWaker)'
    BY <1>7 DEF WorkerWait, TypeOK, Waiters, TaskHasAWaker, StopHasAWaker
  <1>8. ASSUME NEW w \in Worker, WorkerWake(w)
        PROVE  (TaskHasAWaker /\ StopHasAWaker)'
    BY <1>8 DEF WorkerWake, TypeOK, Waiters, TaskHasAWaker, StopHasAWaker
  <1>9. ASSUME NEW w \in Worker, WorkerExit(w)
        PROVE  (TaskHasAWaker /\ StopHasAWaker)'
    BY <1>9 DEF WorkerExit, TypeOK, Waiters, TaskHasAWaker, StopHasAWaker
  <1>10. ASSUME NEW w \in Worker, WorkerTake(w)
         PROVE  (TaskHasAWaker /\ StopHasAWaker)'
    BY <1>10 DEF WorkerTake, TypeOK, Waiters, TaskHasAWaker, StopHasAWaker
  <1>11. ASSUME NEW w \in Worker, WorkerRun(w)
         PROVE  (TaskHasAWaker /\ StopHasAWaker)'
    BY <1>11 DEF WorkerRun, TypeOK, Waiters, TaskHasAWaker, StopHasAWaker
  <1>12. ASSUME UNCHANGED vars PROVE (TaskHasAWaker /\ StopHasAWaker)'
    BY <1>12 DEF vars, TypeOK, Waiters, TaskHasAWaker, StopHasAWaker
  <1> QED
    BY <1>1, <1>2, <1>3, <1>4, <1>5, <1>6, <1>7, <1>8, <1>9, <1>10, <1>11, <1>12
    DEF Next, ClientStep, WorkerStep

THEOREM PoolInvariant == Spec => []PoolInv
  <1>1. PoolInv /\ [Next]_vars => PoolInv'
    <2> SUFFICES ASSUME PoolInv, [Next]_vars PROVE PoolInv'
      OBVIOUS
    <2>1. TypeOK'
      BY TypeStep DEF PoolInv
    <2>2. FifoExactlyOnce'
      BY FifoStep DEF PoolInv
    <2>3. ExitIsDrained' /\ RunsWhatItHolds' /\ JoinedAfterExit'
      BY LoopStep
    <2>4. TaskHasAWaker' /\ StopHasAWaker'
      BY WakeStep
    <2> QED BY <2>1, <2>2, <2>3, <2>4 DEF PoolInv
  <1> QED BY PoolInit, <1>1, PTL DEF Spec

-----------------------------------------------------------------------------
(* The variables of thread_pool.cpp keep their types. *)
THEOREM PoolTypeCorrect == Spec => []TypeOK
  BY PoolInvariant, PTL DEF PoolInv

(* No task is lost, duplicated or overtaken between enqueue() and the      *)
(* worker that takes it.                                                   *)
THEOREM PoolFifo == Spec => []FifoExactlyOnce
  BY PoolInvariant, PTL DEF PoolInv

(* Neither a push nor shutdown() can leave the workers asleep: calling     *)
(* notify_one() and notify_all() after the mutex is released is safe.      *)
THEOREM PoolWakes == Spec => [](TaskHasAWaker /\ StopHasAWaker)
  BY PoolInvariant, PTL DEF PoolInv

(* shutdown() returns only after every accepted task has been run. *)
THEOREM PoolDrains == Spec => []ShutdownDrains
  <1>1. PoolInv => ShutdownDrains
    <2> SUFFICES ASSUME PoolInv, joined
                 PROVE  /\ started = accepted
                        /\ \A w \in Worker : wpc[w] = "exit" /\ running[w] = NoTask
      BY DEF ShutdownDrains
    <2>1. \A w \in Worker : wpc[w] = "exit" /\ running[w] = NoTask
      BY DEF PoolInv, JoinedAfterExit, RunsWhatItHolds
    <2>2. tasks = <<>>
      BY <2>1, PoolAssumption DEF PoolInv, ExitIsDrained
    <2>3. started = accepted
      BY <2>2, EmptyMoves DEF PoolInv, TypeOK, FifoExactlyOnce
    <2> QED BY <2>1, <2>3
  <1> QED BY PoolInvariant, <1>1, PTL

-----------------------------------------------------------------------------
(* The safety part of QueueSpec: every step of the pool is a step of the   *)
(* abstract bounded queue or leaves it unchanged.                          *)
THEOREM PoolImplementsQueue == Spec => Queue!SafetySpec
  <1>1. Init => Queue!Init
    BY DEF Init, Queue!Init
  <1>2. PoolInv /\ [Next]_vars => [Queue!Next]_Queue!vars
    <2> SUFFICES ASSUME PoolInv, [Next]_vars PROVE [Queue!Next]_Queue!vars
      OBVIOUS
    <2> USE DEF Queue!Next, Queue!vars
    <2>1. ASSUME NEW c \in Client, NEW t \in Task \cup {NoTask}, EnqueuePush(c, t)
          PROVE  Queue!Next
      <3>1. t \in Task /\ Queue!Accept(t)
        BY <2>1 DEF EnqueuePush, Queue!Accept, Queue!HasRoom
      <3> QED BY <3>1
    <2>2. ASSUME NEW c \in Client, ShutdownStop(c) PROVE Queue!Next
      BY <2>2 DEF ShutdownStop, Queue!Stop
    <2>3. ASSUME NEW w \in Worker, WorkerTake(w) PROVE Queue!Next
      <3>1. running[w] = NoTask
        BY <2>3 DEF WorkerTake, PoolInv, RunsWhatItHolds
      <3>2. Queue!Start(w)
        BY <2>3, <3>1 DEF WorkerTake, Queue!Start
      <3> QED BY <3>2
    <2>4. ASSUME NEW w \in Worker, WorkerRun(w) PROVE Queue!Next
      <3>1. running[w] # NoTask
        BY <2>4 DEF WorkerRun, PoolInv, RunsWhatItHolds
      <3>2. Queue!Finish(w)
        BY <2>4, <3>1 DEF WorkerRun, Queue!Finish
      <3> QED BY <3>2
    <2>5. ASSUME NEW c \in Client,
                 \/ \E t \in Task \cup {NoTask} : EnqueueRefuse(c, t)
                 \/ NotifyOne(c) \/ NotifyAll(c) \/ Join(c)
          PROVE  UNCHANGED Queue!vars
      BY <2>5 DEF EnqueueRefuse, NotifyOne, NotifyAll, Join
    <2>6. ASSUME NEW w \in Worker, WorkerWait(w) \/ WorkerWake(w) \/ WorkerExit(w)
          PROVE  UNCHANGED Queue!vars
      BY <2>6 DEF WorkerWait, WorkerWake, WorkerExit
    <2>7. ASSUME UNCHANGED vars PROVE UNCHANGED Queue!vars
      BY <2>7 DEF vars
    <2> QED
      BY <2>1, <2>2, <2>3, <2>4, <2>5, <2>6, <2>7
      DEF Next, ClientStep, WorkerStep
  <1> QED BY <1>1, <1>2, PoolInvariant, PTL DEF Spec, Queue!SafetySpec
=============================================================================
