------------------------------- MODULE Logger -------------------------------
(***************************************************************************)
(* logger/logger.cpp: any thread hands messages to a bounded deque, one    *)
(* writer thread takes them, stamps them with the time and writes them to  *)
(* the file of the day and to the terminal.  A message that finds the      *)
(* deque full, or the logger stopping, is dropped and its caller not told. *)
(*                                                                         *)
(* A block under mutex_ is one action, a notification after it another.    *)
(* log() runs without the mutex and reads the clock twice, first for the   *)
(* file's date and then for the line's stamp: two actions, between which   *)
(* midnight may pass.                                                      *)
(***************************************************************************)
EXTENDS Naturals, Sequences

CONSTANTS
  Msg,       (* messages, each logged once                                  *)
  Caller,    (* threads that call info(), warn() or error()                 *)
  MaxTasks,  (* max_tasks_, 10000                                           *)
  NoMsg,     (* the writer's local task_ when it has none                   *)
  MaxDay     (* bound of the model: days that pass                          *)

ASSUME LoggerAssumption ==
  /\ MaxTasks \in Nat
  /\ NoMsg \notin Msg
  /\ MaxDay \in Nat \ {0}

VARIABLES
  dq,        (* dq_                                                         *)
  stopping,  (* stopping_                                                   *)
  wpc,       (* where the writer is in worker_loop() and log()              *)
  task,      (* the writer's task_                                          *)
  cpc,       (* where each caller is in enqueue()                           *)
  opc,       (* where the destructor's thread is in shutdown()              *)
  day,       (* the date                                                    *)
  curDate,   (* cur_date_                                                   *)
  file,      (* the day whose file file_ has open, 0 if none                *)
  lines,     (* what has been printed: message, file it went to, stamp      *)
  accepted,  (* history: messages pushed, in order                          *)
  dropped    (* history: messages refused                                   *)

queue == <<dq, stopping, accepted, dropped>>
output == <<curDate, file, lines>>
vars == <<queue, output, wpc, task, cpc, opc, day>>

Day == 1..MaxDay
Line == [msg : Msg, file : Day \cup {0}, stamp : Day]

TypeOK ==
  /\ dq \in Seq(Msg)
  /\ stopping \in BOOLEAN
  /\ wpc \in {"check", "wait", "log", "write", "exit"}
  /\ task \in Msg \cup {NoMsg}
  /\ cpc \in [Caller -> {"idle", "notify_one"}]
  /\ opc \in {"run", "notify_all", "join", "done"}
  /\ day \in Day
  /\ curDate \in Day
  /\ file \in Day \cup {0}
  /\ lines \in Seq(Line)
  /\ accepted \in Seq(Msg)
  /\ dropped \subseteq Msg

(* After init(), the first call of main(): the file is open, unless that   *)
(* failed, and the writer has been started.                                *)
Init ==
  /\ dq = <<>> /\ accepted = <<>> /\ dropped = {}
  /\ stopping = FALSE
  /\ wpc = "check"
  /\ task = NoMsg
  /\ cpc = [c \in Caller |-> "idle"]
  /\ opc = "run"
  /\ day = 1
  /\ curDate = 1
  /\ file \in {0, 1}
  /\ lines = <<>>

Midnight ==
  /\ day < MaxDay
  /\ day' = day + 1
  /\ UNCHANGED <<queue, output, wpc, task, cpc, opc>>

-----------------------------------------------------------------------------
(* enqueue(), which info(), warn() and error() call.                       *)

Refuses == stopping \/ Len(dq) >= MaxTasks

Offered(c, m) ==
  /\ cpc[c] = "idle"
  /\ m \notin dropped
  /\ \A i \in DOMAIN accepted : accepted[i] # m
  /\ UNCHANGED <<stopping, output, wpc, task, opc, day>>

(* Mutant: the limit is off by one. *)
PushOver(c, m) ==
  /\ Offered(c, m)
  /\ ~stopping /\ Len(dq) <= MaxTasks
  /\ dq' = Append(dq, m)
  /\ accepted' = Append(accepted, m)
  /\ cpc' = [cpc EXCEPT ![c] = "notify_one"]
  /\ UNCHANGED dropped

Push(c, m) ==
  /\ Offered(c, m)
  /\ ~Refuses
  /\ dq' = Append(dq, m)
  /\ accepted' = Append(accepted, m)
  /\ cpc' = [cpc EXCEPT ![c] = "notify_one"]
  /\ UNCHANGED dropped

Drop(c, m) ==
  /\ Offered(c, m)
  /\ Refuses
  /\ dropped' = dropped \cup {m}
  /\ UNCHANGED <<dq, accepted, cpc>>

(* A notification leads a sleeping writer back to its test. *)
WakeWriter == wpc' = IF wpc = "wait" THEN "check" ELSE wpc

NotifyOne(c) ==
  /\ cpc[c] = "notify_one"
  /\ cpc' = [cpc EXCEPT ![c] = "idle"]
  /\ WakeWriter
  /\ UNCHANGED <<queue, output, task, opc, day>>

-----------------------------------------------------------------------------
(* shutdown(), called by the destructor.                                   *)

Stop ==
  /\ opc = "run"
  /\ stopping' = TRUE
  /\ opc' = "notify_all"
  /\ UNCHANGED <<dq, accepted, dropped, output, wpc, task, cpc, day>>

NotifyAll ==
  /\ opc = "notify_all"
  /\ opc' = "join"
  /\ WakeWriter
  /\ UNCHANGED <<queue, output, task, cpc, day>>

Join ==
  /\ opc = "join"
  /\ wpc = "exit"
  /\ opc' = "done"
  /\ UNCHANGED <<queue, output, wpc, task, cpc, day>>

-----------------------------------------------------------------------------
(* worker_loop()                                                           *)

(* Mutant: the predicate of the wait forgets stopping_. *)
WaitDeaf ==
  /\ wpc = "check"
  /\ dq = <<>>
  /\ wpc' = "wait"
  /\ UNCHANGED <<queue, output, task, cpc, opc, day>>

Wait ==
  /\ wpc = "check"
  /\ dq = <<>> /\ ~stopping
  /\ wpc' = "wait"
  /\ UNCHANGED <<queue, output, task, cpc, opc, day>>

(* A spurious wake-up. *)
Wake ==
  /\ wpc = "wait"
  /\ wpc' = "check"
  /\ UNCHANGED <<queue, output, task, cpc, opc, day>>

(* Mutant: stopping_ alone ends the loop. *)
ExitEarly ==
  /\ wpc = "check"
  /\ stopping
  /\ wpc' = "exit"
  /\ UNCHANGED <<queue, output, task, cpc, opc, day>>

Exit ==
  /\ wpc = "check"
  /\ dq = <<>> /\ stopping
  /\ wpc' = "exit"
  /\ UNCHANGED <<queue, output, task, cpc, opc, day>>

(* Mutant: the newest message is taken first. *)
TakeLast ==
  /\ wpc = "check"
  /\ dq # <<>>
  /\ task' = dq[Len(dq)]
  /\ dq' = SubSeq(dq, 1, Len(dq) - 1)
  /\ wpc' = "log"
  /\ UNCHANGED <<stopping, accepted, dropped, output, cpc, opc, day>>

Take ==
  /\ wpc = "check"
  /\ dq # <<>>
  /\ task' = Head(dq)
  /\ dq' = Tail(dq)
  /\ wpc' = "log"
  /\ UNCHANGED <<stopping, accepted, dropped, output, cpc, opc, day>>

-----------------------------------------------------------------------------
(* log()                                                                   *)

(* Mutant: the stream is not closed first, so that open() fails and leaves *)
(* yesterday's file in it.                                                 *)
OpenLogFileTwice ==
  /\ curDate' = day
  /\ file' \in IF file # 0 THEN {file} ELSE {0, day}

(* open_log_file_locked(), which may fail. *)
OpenLogFile ==
  /\ curDate' = day
  /\ file' \in {0, day}

(* The date is read; the file is changed on a new day, and tried again if  *)
(* it could not be opened before.                                          *)
LogDate ==
  /\ wpc = "log"
  /\ wpc' = "write"
  /\ IF day # curDate \/ file = 0 THEN OpenLogFile ELSE UNCHANGED <<curDate, file>>
  /\ UNCHANGED <<queue, lines, task, cpc, opc, day>>

(* Mutant: the message has been moved from when it is printed. *)
LogLineMoved ==
  /\ wpc = "write"
  /\ lines' = Append(lines, [msg |-> NoMsg, file |-> file, stamp |-> day])
  /\ task' = NoMsg
  /\ wpc' = "check"
  /\ UNCHANGED <<queue, curDate, file, cpc, opc, day>>

(* The time is read and the line printed, to the terminal in any case. *)
LogLine ==
  /\ wpc = "write"
  /\ lines' = Append(lines, [msg |-> task, file |-> file, stamp |-> day])
  /\ task' = NoMsg
  /\ wpc' = "check"
  /\ UNCHANGED <<queue, curDate, file, cpc, opc, day>>

-----------------------------------------------------------------------------
CallerStep(c) == NotifyOne(c) \/ \E m \in Msg : Push(c, m) \/ Drop(c, m)

OwnerStep == Stop \/ NotifyAll \/ Join

WriterStep == Wait \/ Wake \/ Exit \/ Take \/ LogDate \/ LogLine

Next == Midnight \/ OwnerStep \/ WriterStep \/ \E c \in Caller : CallerStep(c)

Spec == Init /\ [][Next]_vars

(* Threads that can run are run.  Nobody is obliged to log or to stop, and *)
(* spurious wake-ups need not happen.                                      *)
Fairness ==
  /\ WF_vars(Exit \/ Take \/ LogDate \/ LogLine)
  /\ WF_vars(NotifyAll \/ Join)
  /\ \A c \in Caller : WF_vars(NotifyOne(c))

FairSpec == Spec /\ Fairness

-----------------------------------------------------------------------------
Printed == [i \in DOMAIN lines |-> lines[i].msg]

(* What the writer holds between taking a message and printing it. *)
InHand == IF task = NoMsg THEN <<>> ELSE <<task>>

(* What has been accepted is printed once and in order, with nothing in    *)
(* between lost: printed, in hand and queued make up what was accepted.    *)
LoggedExactlyOnce == accepted = Printed \o InHand \o dq

(* No lost wake-up: the writer does not sleep on a message unless the      *)
(* caller that pushed one has still to notify it.                          *)
MessageHasAWaker ==
  dq # <<>> /\ wpc = "wait" => \E c \in Caller : cpc[c] = "notify_one"

(* The writer sleeps through shutdown() only until its notify_all().       *)
StopHasAWaker == stopping /\ wpc = "wait" => opc = "notify_all"

(* The logger's destructor loses nothing: when it has joined the writer,   *)
(* every accepted message has been printed.                                *)
ShutdownDrainsLog == opc = "done" => Printed = accepted

(* Files roll by day, and midnight can misplace one line only: the two     *)
(* readings of the clock may put a line into the file of the day before    *)
(* its stamp, but after a line stamped d none goes to a file older than d. *)
OneLineLateAtMidnight ==
  \A i, j \in DOMAIN lines :
    i < j /\ lines[j].file # 0 => lines[j].file >= lines[i].stamp

(* shutdown() returns. *)
ShutdownReturns == stopping ~> opc = "done"

(* The logger is a bounded FIFO with one worker, liveness included: an     *)
(* accepted message is printed in the end.                                 *)
Queue == INSTANCE TaskQueue
           WITH Task <- Msg, Worker <- {"writer"}, NoTask <- NoMsg,
                tasks <- dq, running <- [w \in {"writer"} |-> task]
QueueSpec == Queue!Spec
=============================================================================
