--------------------------- MODULE Logger_proofs ---------------------------
(***************************************************************************)
(* Proofs about Logger, for every set of messages and callers, every queue *)
(* limit and any number of days: its safety invariants by one inductive    *)
(* invariant, and the safety part of "it implements TaskQueue".            *)
(***************************************************************************)
EXTENDS Logger, TLAPS

(* The writer has a message exactly while it is in log(). *)
HoldsWhileLogging == task # NoMsg <=> wpc \in {"log", "write"}

(* The writer leaves its loop only when nothing is left or can still come. *)
ExitIsDrained == wpc = "exit" => stopping /\ dq = <<>>

(* shutdown() sets the flag first and joins last. *)
OwnerInOrder ==
  /\ opc = "run" <=> ~stopping
  /\ opc = "done" => wpc = "exit"

(* Between the two readings of the clock the open file is at least as new  *)
(* as anything printed, and nothing was printed in the future.             *)
FileIsNew ==
  /\ file # 0 => file = curDate
  /\ curDate <= day
  /\ \A i \in DOMAIN lines : lines[i].stamp <= day
  /\ wpc = "write" /\ file # 0 => \A i \in DOMAIN lines : lines[i].stamp <= file

LogInv ==
  /\ TypeOK
  /\ LoggedExactlyOnce
  /\ MessageHasAWaker
  /\ StopHasAWaker
  /\ HoldsWhileLogging
  /\ ExitIsDrained
  /\ OwnerInOrder
  /\ FileIsNew
  /\ OneLineLateAtMidnight

-----------------------------------------------------------------------------
(* Facts about sequences that the steps on the deque rest on. *)

LEMMA PushMoves ==
  ASSUME NEW S, NEW s \in Seq(S), NEW q \in Seq(S), NEW e \in S
  PROVE  /\ Append(q, e) \in Seq(S)
         /\ Append(s \o q, e) = s \o Append(q, e)
         /\ Append(q, e) # <<>>
  OBVIOUS

LEMMA TakeMoves ==
  ASSUME NEW S, NEW s \in Seq(S), NEW q \in Seq(S), q # <<>>
  PROVE  /\ Head(q) \in S
         /\ Tail(q) \in Seq(S)
         /\ (s \o <<Head(q)>>) \o Tail(q) = (s \o <<>>) \o q
  OBVIOUS

LEMMA PrintMoves ==
  ASSUME NEW S, NEW s \in Seq(S), NEW q \in Seq(S), NEW e \in S
  PROVE  (Append(s, e) \o <<>>) \o q = (s \o <<e>>) \o q
  OBVIOUS

LEMMA NothingMoves ==
  ASSUME NEW S, NEW s \in Seq(S)
  PROVE  (s \o <<>>) \o <<>> = s
  OBVIOUS

(* What has been printed is a sequence of messages. *)
LEMMA PrintedIsSeq == TypeOK => Printed \in Seq(Msg)
  <1> SUFFICES ASSUME TypeOK PROVE Printed \in Seq(Msg)
    OBVIOUS
  <1>1. lines \in Seq(Line) /\ DOMAIN lines = 1..Len(lines) /\ Len(lines) \in Nat
    BY DEF TypeOK
  <1>2. \A i \in 1..Len(lines) : lines[i] \in Line
    BY <1>1
  <1>3. \A l \in Line : l.msg \in Msg
    BY DEF Line
  <1> QED BY <1>1, <1>2, <1>3 DEF Printed

(* Where an appended line is, and where the others are. *)
LEMMA LineAppended ==
  ASSUME NEW s \in Seq(Line), NEW l \in Line
  PROVE  /\ Append(s, l) \in Seq(Line)
         /\ DOMAIN s = 1..Len(s)
         /\ Len(s) \in Nat
         /\ DOMAIN Append(s, l) = 1..(Len(s) + 1)
         /\ \A i \in 1..Len(s) : Append(s, l)[i] = s[i]
         /\ Append(s, l)[Len(s) + 1] = l
  OBVIOUS

-----------------------------------------------------------------------------
LEMMA LogInit == Init => LogInv
  <1> SUFFICES ASSUME Init PROVE LogInv
    OBVIOUS
  <1> USE LoggerAssumption DEF Init
  <1>1. TypeOK
    <2>1. <<>> \in Seq(Msg) /\ <<>> \in Seq(Line)
      OBVIOUS
    <2>2. 1 \in Day
      BY DEF Day
    <2> QED BY <2>1, <2>2 DEF TypeOK
  <1>2. LoggedExactlyOnce
    <2>1. Printed = <<>>
      BY DEF Printed
    <2> QED BY <2>1 DEF LoggedExactlyOnce, InHand
  <1>3. MessageHasAWaker /\ StopHasAWaker
    BY DEF MessageHasAWaker, StopHasAWaker
  <1>4. HoldsWhileLogging /\ ExitIsDrained /\ OwnerInOrder
    BY DEF HoldsWhileLogging, ExitIsDrained, OwnerInOrder
  <1>5. FileIsNew /\ OneLineLateAtMidnight
    BY DEF FileIsNew, OneLineLateAtMidnight
  <1> QED BY <1>1, <1>2, <1>3, <1>4, <1>5 DEF LogInv

-----------------------------------------------------------------------------
(* Every step keeps the invariant: one lemma per group of conjuncts, and   *)
(* in it one step per action.                                              *)

LEMMA TypeStep == TypeOK /\ HoldsWhileLogging /\ [Next]_vars => TypeOK'
  <1> SUFFICES ASSUME TypeOK, HoldsWhileLogging, [Next]_vars PROVE TypeOK'
    OBVIOUS
  <1> USE LoggerAssumption
  <1>1. ASSUME NEW c \in Caller, NEW m \in Msg, Push(c, m) PROVE TypeOK'
    <2>1. dq' \in Seq(Msg) /\ accepted' \in Seq(Msg)
      BY <1>1, PushMoves DEF Push, TypeOK
    <2> QED BY <1>1, <2>1 DEF Push, Offered, output, TypeOK
  <1>2. ASSUME NEW c \in Caller, NEW m \in Msg, Drop(c, m) PROVE TypeOK'
    BY <1>2 DEF Drop, Offered, output, TypeOK
  <1>3. ASSUME NEW c \in Caller, NotifyOne(c) PROVE TypeOK'
    BY <1>3 DEF NotifyOne, WakeWriter, queue, output, TypeOK
  <1>4. ASSUME Stop \/ NotifyAll \/ Join PROVE TypeOK'
    BY <1>4 DEF Stop, NotifyAll, Join, WakeWriter, queue, output, TypeOK
  <1>5. ASSUME Wait \/ Wake \/ Exit PROVE TypeOK'
    BY <1>5 DEF Wait, Wake, Exit, queue, output, TypeOK
  <1>6. ASSUME Take PROVE TypeOK'
    <2>1. dq' \in Seq(Msg) /\ Head(dq) \in Msg
      BY <1>6, TakeMoves DEF Take, TypeOK
    <2> QED BY <1>6, <2>1 DEF Take, output, TypeOK
  <1>7. ASSUME LogDate PROVE TypeOK'
    BY <1>7 DEF LogDate, OpenLogFile, queue, TypeOK
  <1>8. ASSUME LogLine PROVE TypeOK'
    <2>1. [msg |-> task, file |-> file, stamp |-> day] \in Line
      BY <1>8 DEF LogLine, HoldsWhileLogging, Line, TypeOK
    <2>2. lines' \in Seq(Line)
      BY <1>8, <2>1, LineAppended DEF LogLine, TypeOK
    <2> QED BY <1>8, <2>2 DEF LogLine, queue, TypeOK
  <1>9. ASSUME Midnight PROVE TypeOK'
    BY <1>9 DEF Midnight, Day, queue, output, TypeOK
  <1>10. ASSUME UNCHANGED vars PROVE TypeOK'
    BY <1>10 DEF vars, queue, output, TypeOK
  <1> QED
    BY <1>1, <1>2, <1>3, <1>4, <1>5, <1>6, <1>7, <1>8, <1>9, <1>10
    DEF Next, CallerStep, OwnerStep, WriterStep

(* A push, a take and a print move one message from stage to stage. *)
LEMMA MessageStep == LogInv /\ [Next]_vars => LoggedExactlyOnce'
  <1> SUFFICES ASSUME LogInv, [Next]_vars PROVE LoggedExactlyOnce'
    OBVIOUS
  <1> USE LoggerAssumption
  <1>0. /\ Printed \in Seq(Msg) /\ InHand \in Seq(Msg) /\ dq \in Seq(Msg)
        /\ Printed \o InHand \in Seq(Msg)
        /\ accepted = Printed \o InHand \o dq
    BY PrintedIsSeq DEF LogInv, LoggedExactlyOnce, InHand, TypeOK
  <1>1. ASSUME NEW c \in Caller, NEW m \in Msg, Push(c, m) PROVE LoggedExactlyOnce'
    <2>1. dq' = Append(dq, m) /\ accepted' = Append(accepted, m) /\ lines' = lines /\ task' = task
      BY <1>1 DEF Push, Offered, output
    <2>2. Append((Printed \o InHand) \o dq, m) = (Printed \o InHand) \o Append(dq, m)
      <3> DEFINE s == Printed \o InHand
      <3>1. s \in Seq(Msg) /\ dq \in Seq(Msg)
        BY <1>0
      <3> HIDE DEF s
      <3>2. Append(s \o dq, m) = s \o Append(dq, m)
        BY <3>1
      <3> QED BY <3>2 DEF s
    <2>3. Printed' = Printed /\ InHand' = InHand
      BY <2>1 DEF Printed, InHand
    <2> QED BY <1>0, <2>1, <2>2, <2>3 DEF LoggedExactlyOnce
  <1>2. ASSUME Take PROVE LoggedExactlyOnce'
    <2>1. Head(dq) \in Msg
      BY <1>0, <1>2, TakeMoves DEF Take
    <2>2. InHand = <<>> /\ InHand' = <<Head(dq)>>
      BY <1>2, <2>1 DEF Take, InHand, LogInv, HoldsWhileLogging
    <2>3. Printed' = Printed /\ dq' = Tail(dq) /\ accepted' = accepted
      BY <1>2 DEF Take, output, Printed
    <2>4. (Printed \o <<Head(dq)>>) \o Tail(dq) = (Printed \o <<>>) \o dq
      BY <1>0, <1>2, TakeMoves DEF Take
    <2> QED BY <1>0, <2>2, <2>3, <2>4 DEF LoggedExactlyOnce
  <1>3. ASSUME LogLine PROVE LoggedExactlyOnce'
    <2> DEFINE l == [msg |-> task, file |-> file, stamp |-> day]
    <2>1. task \in Msg /\ l \in Line /\ lines \in Seq(Line)
      BY <1>3 DEF LogLine, LogInv, HoldsWhileLogging, Line, TypeOK
    <2>2. lines' = Append(lines, l)
      BY <1>3 DEF LogLine
    <2>3. InHand = <<task>> /\ InHand' = <<>> /\ dq' = dq /\ accepted' = accepted
      BY <1>3, <2>1 DEF LogLine, InHand, queue
    <2>4. Printed' = Append(Printed, task)
      <3>1. /\ Len(lines) \in Nat
            /\ Printed = [i \in 1..Len(lines) |-> lines[i].msg]
            /\ Printed' = [i \in 1..(Len(lines) + 1) |-> Append(lines, l)[i].msg]
        BY <2>1, <2>2, LineAppended DEF Printed
      <3>2. \A i \in 1..Len(lines) : Append(lines, l)[i].msg = Printed[i]
        BY <2>1, <3>1, LineAppended
      <3>3. Append(lines, l)[Len(lines) + 1].msg = task
        BY <2>1, LineAppended
      <3>4. Len(Printed) = Len(lines)
        BY <3>1
      <3>5. Append(Printed, task) =
              [i \in 1..(Len(lines) + 1) |-> IF i = Len(lines) + 1 THEN task ELSE Printed[i]]
        BY <1>0, <3>1, <3>4
      <3> HIDE DEF l
      <3> QED BY <3>1, <3>2, <3>3, <3>5
    <2>5. (Append(Printed, task) \o <<>>) \o dq = (Printed \o <<task>>) \o dq
      BY <1>0, <2>1, PrintMoves
    <2> QED BY <1>0, <2>3, <2>4, <2>5 DEF LoggedExactlyOnce
  <1>4. ASSUME UNCHANGED <<lines, task, dq, accepted>> PROVE LoggedExactlyOnce'
    BY <1>4 DEF LogInv, LoggedExactlyOnce, Printed, InHand
  <1> QED
    BY <1>1, <1>2, <1>3, <1>4
    DEF Next, CallerStep, OwnerStep, WriterStep, vars, queue, output, Drop, Offered,
        NotifyOne, Stop, NotifyAll, Join, Wait, Wake, Exit, LogDate, Midnight

(* The writer, its callers and the destructor wait for each other as       *)
(* worker_loop() and shutdown() prescribe.                                 *)
LEMMA LoopStep ==
  LogInv /\ [Next]_vars =>
    (/\ MessageHasAWaker /\ StopHasAWaker
     /\ HoldsWhileLogging /\ ExitIsDrained /\ OwnerInOrder)'
  <1> DEFINE Loop == /\ MessageHasAWaker /\ StopHasAWaker
                     /\ HoldsWhileLogging /\ ExitIsDrained /\ OwnerInOrder
  <1> SUFFICES ASSUME LogInv, [Next]_vars PROVE Loop'
    OBVIOUS
  <1> USE LoggerAssumption DEF LogInv, MessageHasAWaker, StopHasAWaker,
          HoldsWhileLogging, ExitIsDrained, OwnerInOrder
  <1>1. ASSUME NEW c \in Caller, NEW m \in Msg, Push(c, m) PROVE Loop'
    BY <1>1 DEF Push, Offered, Refuses, TypeOK
  <1>2. ASSUME NEW c \in Caller, NEW m \in Msg, Drop(c, m) PROVE Loop'
    BY <1>2 DEF Drop, Offered, TypeOK
  <1>3. ASSUME NEW c \in Caller, NotifyOne(c) PROVE Loop'
    BY <1>3 DEF NotifyOne, WakeWriter, queue, TypeOK
  <1>4. ASSUME Stop PROVE Loop'
    BY <1>4 DEF Stop, TypeOK
  <1>5. ASSUME NotifyAll PROVE Loop'
    BY <1>5 DEF NotifyAll, WakeWriter, queue, TypeOK
  <1>6. ASSUME Join PROVE Loop'
    BY <1>6 DEF Join, queue, TypeOK
  <1>7. ASSUME Wait \/ Wake \/ Exit PROVE Loop'
    BY <1>7 DEF Wait, Wake, Exit, queue, TypeOK
  <1>8. ASSUME Take PROVE Loop'
    <2>1. Head(dq) # NoMsg
      BY <1>8, TakeMoves DEF Take, TypeOK
    <2> QED BY <1>8, <2>1 DEF Take, TypeOK
  <1>9. ASSUME LogDate \/ LogLine PROVE Loop'
    BY <1>9 DEF LogDate, LogLine, queue, TypeOK
  <1>10. ASSUME Midnight \/ UNCHANGED vars PROVE Loop'
    BY <1>10 DEF Midnight, vars, queue, TypeOK
  <1> HIDE DEF Loop
  <1> QED
    BY <1>1, <1>2, <1>3, <1>4, <1>5, <1>6, <1>7, <1>8, <1>9, <1>10
    DEF Next, CallerStep, OwnerStep, WriterStep

(* The clock only advances; a file is chosen in one step and the line      *)
(* printed in a later one.                                                 *)
LEMMA DayStep == LogInv /\ [Next]_vars => (FileIsNew /\ OneLineLateAtMidnight)'
  <1> SUFFICES ASSUME LogInv, [Next]_vars PROVE (FileIsNew /\ OneLineLateAtMidnight)'
    OBVIOUS
  <1> USE LoggerAssumption
  <1>0. /\ lines \in Seq(Line) /\ day \in Nat /\ curDate \in Nat /\ file \in Nat
        /\ DOMAIN lines = 1..Len(lines) /\ Len(lines) \in Nat
        /\ \A i \in DOMAIN lines : lines[i] \in Line
    BY DEF LogInv, TypeOK, Day
  <1>1. \A i \in DOMAIN lines : lines[i].stamp \in Nat /\ lines[i].file \in Nat
    BY <1>0 DEF Line, Day
  <1>2. ASSUME LogDate PROVE (FileIsNew /\ OneLineLateAtMidnight)'
    <2>1. lines' = lines /\ day' = day /\ wpc' = "write"
      BY <1>2 DEF LogDate
    <2>2. curDate' = day /\ file' \in {0, day}
      BY <1>2 DEF LogDate, OpenLogFile, LogInv, FileIsNew
    <2> QED BY <1>0, <1>1, <2>1, <2>2 DEF LogInv, FileIsNew, OneLineLateAtMidnight
  <1>3. ASSUME LogLine PROVE (FileIsNew /\ OneLineLateAtMidnight)'
    <2> DEFINE l == [msg |-> task, file |-> file, stamp |-> day]
    <2>1. l \in Line /\ lines' = Append(lines, l) /\ day' = day /\ wpc' = "check"
      BY <1>3 DEF LogLine, LogInv, HoldsWhileLogging, Line, TypeOK
    <2>2. curDate' = curDate /\ file' = file /\ l.file = file /\ l.stamp = day
      BY <1>3 DEF LogLine
    <2>3. /\ DOMAIN lines' = 1..(Len(lines) + 1)
          /\ \A i \in 1..Len(lines) : lines'[i] = lines[i]
          /\ lines'[Len(lines) + 1] = l
      BY <1>0, <2>1, LineAppended
    <2>4. file # 0 => \A i \in DOMAIN lines : lines[i].stamp <= file
      BY <1>3 DEF LogLine, LogInv, FileIsNew
    <2> HIDE DEF l
    <2>5. FileIsNew'
      BY <1>0, <1>1, <2>1, <2>2, <2>3 DEF LogInv, FileIsNew
    <2>6. ASSUME NEW i \in DOMAIN lines', NEW j \in DOMAIN lines', i < j, lines'[j].file # 0
          PROVE  lines'[j].file >= lines'[i].stamp
      <3>1. i \in 1..Len(lines) /\ lines'[i] = lines[i]
        BY <1>0, <2>3, <2>6
      <3>2. CASE j \in 1..Len(lines)
        BY <1>0, <2>3, <2>6, <3>1, <3>2 DEF LogInv, OneLineLateAtMidnight
      <3>3. CASE j = Len(lines) + 1
        BY <1>0, <1>1, <2>2, <2>3, <2>4, <2>6, <3>1, <3>3
      <3> QED BY <1>0, <2>3, <3>2, <3>3
    <2> QED BY <2>5, <2>6 DEF OneLineLateAtMidnight
  <1>4. ASSUME Midnight PROVE (FileIsNew /\ OneLineLateAtMidnight)'
    BY <1>0, <1>1, <1>4 DEF Midnight, output, LogInv, FileIsNew, OneLineLateAtMidnight
  <1>5. ASSUME UNCHANGED <<lines, file, curDate, day>>, wpc' = "write" => wpc = "write"
        PROVE  (FileIsNew /\ OneLineLateAtMidnight)'
    BY <1>5 DEF LogInv, FileIsNew, OneLineLateAtMidnight
  <1> QED
    BY <1>2, <1>3, <1>4, <1>5
    DEF Next, CallerStep, OwnerStep, WriterStep, vars, queue, output, Push, Drop, Offered,
        NotifyOne, WakeWriter, Stop, NotifyAll, Join, Wait, Wake, Exit, Take

THEOREM LogInvariant == Spec => []LogInv
  <1>1. LogInv /\ [Next]_vars => LogInv'
    BY TypeStep, MessageStep, LoopStep, DayStep DEF LogInv
  <1> QED BY LogInit, <1>1, PTL DEF Spec

-----------------------------------------------------------------------------
(* The variables of logger.cpp keep their types. *)
THEOREM LoggerTypeCorrect == Spec => []TypeOK
  BY LogInvariant, PTL DEF LogInv

(* What enqueue() accepted is printed once and in order. *)
THEOREM LoggerKeepsMessages == Spec => []LoggedExactlyOnce
  BY LogInvariant, PTL DEF LogInv

(* The writer never sleeps on a message, nor through shutdown(), although  *)
(* both notifications come after the mutex has been released.              *)
THEOREM LoggerWakes == Spec => [](MessageHasAWaker /\ StopHasAWaker)
  BY LogInvariant, PTL DEF LogInv

(* shutdown() returns only when all that was accepted has been printed. *)
THEOREM LoggerDrains == Spec => []ShutdownDrainsLog
  <1>1. LogInv => ShutdownDrainsLog
    <2> SUFFICES ASSUME LogInv, opc = "done" PROVE Printed = accepted
      BY DEF ShutdownDrainsLog
    <2>1. wpc = "exit" /\ dq = <<>> /\ task = NoMsg
      BY DEF LogInv, OwnerInOrder, ExitIsDrained, HoldsWhileLogging
    <2>2. accepted = (Printed \o <<>>) \o <<>>
      BY <2>1 DEF LogInv, LoggedExactlyOnce, InHand
    <2> QED BY <2>2, PrintedIsSeq, NothingMoves DEF LogInv
  <1> QED BY LogInvariant, <1>1, PTL

(* A line can be in the file of the day before its stamp, but no later     *)
(* line is in a file older than it.                                        *)
THEOREM LoggerRollsByDay == Spec => []OneLineLateAtMidnight
  BY LogInvariant, PTL DEF LogInv

-----------------------------------------------------------------------------
(* The safety part of QueueSpec: to those who call it the logger is the    *)
(* thread pool's bounded FIFO with one worker.                             *)
THEOREM LoggerImplementsQueue == Spec => Queue!SafetySpec
  <1>1. Init => Queue!Init
    BY DEF Init, Queue!Init
  <1>2. LogInv /\ [Next]_vars => [Queue!Next]_Queue!vars
    <2> SUFFICES ASSUME LogInv, [Next]_vars PROVE [Queue!Next]_Queue!vars
      OBVIOUS
    <2> USE LoggerAssumption DEF Queue!Next, Queue!vars
    <2>1. ASSUME NEW c \in Caller, NEW m \in Msg, Push(c, m) PROVE Queue!Next
      <3>1. Queue!Accept(m)
        BY <2>1 DEF Push, Offered, Refuses, LogInv, TypeOK, Queue!Accept, Queue!HasRoom
      <3> QED BY <3>1
    <2>2. ASSUME Stop PROVE Queue!Next
      BY <2>2 DEF Stop, LogInv, OwnerInOrder, Queue!Stop
    <2>3. ASSUME Take PROVE Queue!Next
      <3>1. Queue!Start("writer")
        BY <2>3 DEF Take, LogInv, HoldsWhileLogging, Queue!Start
      <3> QED BY <3>1
    <2>4. ASSUME LogLine PROVE Queue!Next
      <3>1. Queue!Finish("writer")
        BY <2>4 DEF LogLine, queue, LogInv, HoldsWhileLogging, Queue!Finish
      <3> QED BY <3>1
    <2>5. ASSUME UNCHANGED <<dq, task, stopping>> PROVE UNCHANGED Queue!vars
      BY <2>5
    <2> QED
      BY <2>1, <2>2, <2>3, <2>4, <2>5
      DEF Next, CallerStep, OwnerStep, WriterStep, vars, queue, output, Drop, Offered,
          NotifyOne, NotifyAll, Join, Wait, Wake, Exit, LogDate, Midnight
  <1> QED BY <1>1, <1>2, LogInvariant, PTL DEF Spec, Queue!SafetySpec
=============================================================================
