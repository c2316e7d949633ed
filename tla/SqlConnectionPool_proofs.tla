---------------------- MODULE SqlConnectionPool_proofs ----------------------
(***************************************************************************)
(* Proofs about SqlConnectionPool, for every set of handles, every finite  *)
(* set of threads and every size of the pool: its safety invariants, by    *)
(* one inductive invariant.                                                *)
(***************************************************************************)
EXTENDS SqlConnectionPool, FiniteSetTheorems, TLAPS

(* A guard has a handle exactly while its thread uses it. *)
HeldWhileUsed ==
  \A t \in Thread : held[t] # NoConn <=> tpc[t] = "use"

(* Before init() nothing is there, and of the two queues at most one is in *)
(* use: conns_ until shutdown() swaps it, to_close from then on.           *)
OwnerInOrder ==
  /\ opc = "init" => /\ conns = <<>> /\ open = {}
                     /\ \A t \in Thread : tpc[t] = "idle"
  /\ stopping <=> opc \in {"notify_all", "close", "done"}
  /\ stopping => conns = <<>>
  /\ ~stopping => toClose = <<>>
  /\ opc = "done" => toClose = <<>>

SqlInv ==
  /\ TypeOK
  /\ HeldWhileUsed
  /\ OwnerInOrder
  /\ OnePlaceEach
  /\ WaiterHasAWaker
  /\ StopHasAWaker

(* OnePlaceEach, of a queue q, open handles o and guards h. *)
Once(q, o, h) ==
  /\ IsInjective(q)
  /\ \A t, u \in Thread : t # u /\ h[t] # NoConn => h[u] # h[t]
  /\ \A t \in Thread : h[t] \notin Range(q)
  /\ o = Range(q) \cup {h[t] : t \in {u \in Thread : h[u] # NoConn}}

(* The threads about to test the queue or to notify. *)
Busy == {t \in Thread : tpc[t] \in {"check", "notify_one"}}

-----------------------------------------------------------------------------
(* Facts about sequences. *)

LEMMA EmptyOnce == IsInjective(<<>>) /\ Range(<<>>) = {}
  BY DEF IsInjective, Range

LEMMA RangeType ==
  ASSUME NEW S, NEW s \in Seq(S)
  PROVE  Range(s) \subseteq S
  BY DEF Range

(* Taking the head takes one element out. *)
LEMMA TailOnce ==
  ASSUME NEW S, NEW s \in Seq(S), s # <<>>, IsInjective(s)
  PROVE  /\ Head(s) \in S /\ Tail(s) \in Seq(S)
         /\ Len(s) \in Nat /\ Len(s) > 0 /\ Len(Tail(s)) = Len(s) - 1
         /\ IsInjective(Tail(s))
         /\ Head(s) \in Range(s)
         /\ Range(Tail(s)) = Range(s) \ {Head(s)}
  <1>1. /\ Len(s) \in Nat /\ Len(s) > 0 /\ DOMAIN s = 1..Len(s)
        /\ Head(s) = s[1] /\ Head(s) \in S
        /\ Tail(s) \in Seq(S) /\ Len(Tail(s)) = Len(s) - 1
        /\ DOMAIN Tail(s) = 1..(Len(s) - 1)
        /\ \A i \in 1..(Len(s) - 1) : Tail(s)[i] = s[i + 1]
    OBVIOUS
  <1>2. \A a, b \in 1..Len(s) : s[a] = s[b] => a = b
    BY <1>1 DEF IsInjective
  <1>3. IsInjective(Tail(s))
    <2> SUFFICES ASSUME NEW a \in 1..(Len(s) - 1), NEW b \in 1..(Len(s) - 1),
                        Tail(s)[a] = Tail(s)[b]
                 PROVE  a = b
      BY <1>1 DEF IsInjective
    <2>1. s[a + 1] = s[b + 1] /\ a + 1 \in 1..Len(s) /\ b + 1 \in 1..Len(s)
      BY <1>1
    <2>2. a + 1 = b + 1
      BY <1>2, <2>1
    <2> QED BY <2>2
  <1>4. Range(s) = {s[i] : i \in 1..Len(s)}
    BY <1>1 DEF Range
  <1>5. Range(Tail(s)) = {s[i + 1] : i \in 1..(Len(s) - 1)}
    BY <1>1 DEF Range
  <1>6. \A x \in Range(Tail(s)) : x \in Range(s) /\ x # s[1]
    <2> SUFFICES ASSUME NEW i \in 1..(Len(s) - 1)
                 PROVE  s[i + 1] \in Range(s) /\ s[i + 1] # s[1]
      BY <1>5
    <2>1. i + 1 \in 1..Len(s) /\ 1 \in 1..Len(s) /\ i + 1 # 1
      BY <1>1
    <2> QED BY <1>2, <1>4, <2>1
  <1>7. \A x \in Range(s) : x # s[1] => x \in Range(Tail(s))
    <2> SUFFICES ASSUME NEW i \in 1..Len(s), s[i] # s[1]
                 PROVE  s[i] \in Range(Tail(s))
      BY <1>4
    <2>1. i - 1 \in 1..(Len(s) - 1) /\ (i - 1) + 1 = i
      BY <1>1
    <2> QED BY <1>5, <2>1
  <1>8. s[1] \in Range(s)
    BY <1>1, <1>4
  <1> QED BY <1>1, <1>3, <1>6, <1>7, <1>8

(* Appending a new element keeps the others. *)
LEMMA AppendOnce ==
  ASSUME NEW S, NEW s \in Seq(S), NEW e \in S, e \notin Range(s), IsInjective(s)
  PROVE  /\ Append(s, e) \in Seq(S)
         /\ Len(s) \in Nat /\ Len(Append(s, e)) = Len(s) + 1
         /\ IsInjective(Append(s, e))
         /\ Range(Append(s, e)) = Range(s) \cup {e}
  <1>1. /\ Len(s) \in Nat /\ DOMAIN s = 1..Len(s)
        /\ Append(s, e) \in Seq(S) /\ Len(Append(s, e)) = Len(s) + 1
        /\ DOMAIN Append(s, e) = 1..(Len(s) + 1)
        /\ \A i \in 1..Len(s) : Append(s, e)[i] = s[i]
        /\ Append(s, e)[Len(s) + 1] = e
    OBVIOUS
  <1>2. \A i \in 1..Len(s) : s[i] # e
    BY <1>1 DEF Range
  <1>3. \A i \in 1..(Len(s) + 1) : i \in 1..Len(s) \/ i = Len(s) + 1
    BY <1>1
  <1>4. IsInjective(Append(s, e))
    BY <1>1, <1>2, <1>3 DEF IsInjective
  <1>5. Range(Append(s, e)) = Range(s) \cup {e}
    BY <1>1, <1>3 DEF Range
  <1> QED BY <1>1, <1>4, <1>5

LEMMA EmptyConcat ==
  ASSUME NEW S, NEW s \in Seq(S)
  PROVE  s \o <<>> = s /\ <<>> \o s = s
  OBVIOUS

(* Which of the two queues Places is. *)
LEMMA PlacesOf ==
  ASSUME TypeOK, OwnerInOrder
  PROVE  /\ ~stopping => Places = conns
         /\ stopping => Places = toClose
         /\ Places \in Seq(Conn)
  BY EmptyConcat DEF TypeOK, OwnerInOrder, Places

-----------------------------------------------------------------------------
LEMMA SqlInit == Init => SqlInv
  <1> SUFFICES ASSUME Init PROVE SqlInv
    OBVIOUS
  <1> USE SqlAssumption DEF Init
  <1>1. TypeOK
    <2>1. <<>> \in Seq(Conn)
      OBVIOUS
    <2> QED BY <2>1 DEF TypeOK
  <1>2. HeldWhileUsed /\ OwnerInOrder
    BY DEF HeldWhileUsed, OwnerInOrder
  <1>3. OnePlaceEach
    <2>1. Places = <<>>
      BY DEF Places
    <2>2. open = {} /\ \A t \in Thread : held[t] = NoConn
      OBVIOUS
    <2> QED BY <2>1, <2>2, EmptyOnce DEF OnePlaceEach
  <1>4. WaiterHasAWaker /\ StopHasAWaker
    BY DEF WaiterHasAWaker, StopHasAWaker, Waiters
  <1> QED BY <1>1, <1>2, <1>3, <1>4 DEF SqlInv

-----------------------------------------------------------------------------
(* Every step keeps the invariant: one lemma per group of conjuncts, and   *)
(* in it one step per action.                                              *)

(* What init() has pushed is a sequence of handles. *)
LEMMA Pushed ==
  ASSUME TypeOK, NEW k \in Nat, NEW s \in [1..k -> Conn \ open]
  PROVE  s \in Seq(Conn) /\ Range(s) \subseteq Conn
  <1>1. s \in [1..k -> Conn]
    OBVIOUS
  <1> QED BY <1>1, RangeType

LEMMA TypeStep == TypeOK /\ OwnerInOrder /\ HeldWhileUsed /\ [Next]_vars => TypeOK'
  <1> SUFFICES ASSUME TypeOK, OwnerInOrder, HeldWhileUsed, [Next]_vars PROVE TypeOK'
    OBVIOUS
  <1> USE SqlAssumption
  <1>1. ASSUME InitOk PROVE TypeOK'
    <2>1. PICK s \in [1..PoolSize -> Conn \ open] :
            conns' = conns \o s /\ open' = open \cup Range(s)
      BY <1>1 DEF InitOk
    <2>2. s \in Seq(Conn) /\ Range(s) \subseteq Conn
      BY Pushed
    <2>3. conns' = s
      BY <1>1, <2>1, <2>2, EmptyConcat DEF InitOk, OwnerInOrder
    <2> QED BY <1>1, <2>1, <2>2, <2>3 DEF InitOk, TypeOK
  <1>2. ASSUME InitFails PROVE TypeOK'
    <2>1. PICK k \in 0..(PoolSize - 1) : \E s \in [1..k -> Conn \ open] :
            conns' = conns \o s /\ open' = open \cup Range(s)
      BY <1>2 DEF InitFails
    <2>2. PICK s \in [1..k -> Conn \ open] :
            conns' = conns \o s /\ open' = open \cup Range(s)
      BY <2>1
    <2>3. s \in Seq(Conn) /\ Range(s) \subseteq Conn
      BY Pushed
    <2>4. conns' = s
      BY <1>2, <2>2, <2>3, EmptyConcat DEF InitFails, OwnerInOrder
    <2> QED BY <1>2, <2>2, <2>3, <2>4 DEF InitFails, TypeOK
  <1>3. ASSUME ShutdownSwap PROVE TypeOK'
    <2>1. <<>> \in Seq(Conn)
      OBVIOUS
    <2> QED BY <1>3, <2>1 DEF ShutdownSwap, TypeOK
  <1>4. ASSUME NotifyAll \/ ShutdownEnd PROVE TypeOK'
    BY <1>4 DEF NotifyAll, ShutdownEnd, TypeOK
  <1>5. ASSUME CloseNext PROVE TypeOK'
    BY <1>5 DEF CloseNext, TypeOK
  <1>6. ASSUME NEW t \in Thread, TakeConn(t) PROVE TypeOK'
    <2>1. Head(conns) \in Conn /\ Tail(conns) \in Seq(Conn)
      BY <1>6 DEF TakeConn, TypeOK
    <2> QED BY <1>6, <2>1 DEF TakeConn, TypeOK
  <1>7. ASSUME NEW t \in Thread, Release(t) PROVE TypeOK'
    <2>1. held[t] \in Conn
      BY <1>7 DEF Release, TypeOK, HeldWhileUsed
    <2>2. Append(conns, held[t]) \in Seq(Conn)
      BY <2>1 DEF TypeOK
    <2> QED BY <1>7, <2>2 DEF Release, TypeOK
  <1>8. ASSUME NEW t \in Thread, ReleaseStopping(t) PROVE TypeOK'
    BY <1>8 DEF ReleaseStopping, TypeOK
  <1>9. ASSUME NEW t \in Thread, BeginGet(t) \/ GetNull(t) \/ WaitConn(t) \/ Wake(t)
        PROVE  TypeOK'
    BY <1>9 DEF BeginGet, GetNull, WaitConn, Wake, TypeOK
  <1>10. ASSUME NEW t \in Thread, NotifyOne(t) PROVE TypeOK'
    BY <1>10 DEF NotifyOne, Waiters, TypeOK
  <1>11. ASSUME UNCHANGED vars PROVE TypeOK'
    BY <1>11 DEF vars, TypeOK
  <1> QED
    BY <1>1, <1>2, <1>3, <1>4, <1>5, <1>6, <1>7, <1>8, <1>9, <1>10, <1>11
    DEF Next, OwnerStep, ThreadStep

LEMMA PhaseStep == SqlInv /\ [Next]_vars => (HeldWhileUsed /\ OwnerInOrder /\ StopHasAWaker)'
  <1> DEFINE Phase == HeldWhileUsed /\ OwnerInOrder /\ StopHasAWaker
  <1> SUFFICES ASSUME SqlInv, [Next]_vars PROVE Phase'
    OBVIOUS
  <1> USE SqlAssumption DEF SqlInv, HeldWhileUsed, OwnerInOrder, StopHasAWaker
  <1>1. ASSUME InitOk \/ InitFails PROVE Phase'
    BY <1>1 DEF InitOk, InitFails, Waiters
  <1>2. ASSUME ShutdownSwap PROVE Phase'
    BY <1>2 DEF ShutdownSwap, Waiters
  <1>3. ASSUME NotifyAll PROVE Phase'
    BY <1>3 DEF NotifyAll, Waiters, TypeOK
  <1>4. ASSUME CloseNext \/ ShutdownEnd PROVE Phase'
    BY <1>4 DEF CloseNext, ShutdownEnd, Waiters
  <1>5. ASSUME NEW t \in Thread, TakeConn(t) PROVE Phase'
    <2>1. Head(conns) # NoConn
      BY <1>5 DEF TakeConn, TypeOK
    <2> QED BY <1>5, <2>1 DEF TakeConn, Waiters, TypeOK
  <1>6. ASSUME NEW t \in Thread, Release(t) PROVE Phase'
    BY <1>6 DEF Release, Waiters, TypeOK
  <1>7. ASSUME NEW t \in Thread, ReleaseStopping(t) PROVE Phase'
    BY <1>7 DEF ReleaseStopping, Waiters, TypeOK
  <1>8. ASSUME NEW t \in Thread, BeginGet(t) PROVE Phase'
    BY <1>8 DEF BeginGet, Waiters, TypeOK
  <1>9. ASSUME NEW t \in Thread, GetNull(t) PROVE Phase'
    BY <1>9 DEF GetNull, Waiters, TypeOK
  <1>10. ASSUME NEW t \in Thread, WaitConn(t) PROVE Phase'
    BY <1>10 DEF WaitConn, Waiters, TypeOK
  <1>11. ASSUME NEW t \in Thread, Wake(t) PROVE Phase'
    BY <1>11 DEF Wake, Waiters, TypeOK
  <1>12. ASSUME NEW t \in Thread, NotifyOne(t) PROVE Phase'
    BY <1>12 DEF NotifyOne, Waiters, TypeOK
  <1>13. ASSUME UNCHANGED vars PROVE Phase'
    BY <1>13 DEF vars, Waiters
  <1> HIDE DEF Phase
  <1> QED
    BY <1>1, <1>2, <1>3, <1>4, <1>5, <1>6, <1>7, <1>8, <1>9, <1>10, <1>11, <1>12, <1>13
    DEF Next, OwnerStep, ThreadStep

LEMMA OnceIs == OnePlaceEach <=> Once(Places, open, held)
  BY DEF OnePlaceEach, Once

(* A handle moves between the pool and one guard, or is closed. *)
LEMMA PlaceStep == SqlInv /\ TypeOK' /\ OwnerInOrder' /\ [Next]_vars => OnePlaceEach'
  <1> SUFFICES ASSUME SqlInv, TypeOK', OwnerInOrder', [Next]_vars PROVE Once(Places', open', held')
    BY DEF OnePlaceEach, Once
  <1> USE SqlAssumption
  <1>0. /\ Once(Places, open, held)
        /\ Places \in Seq(Conn) /\ Range(Places) \subseteq Conn
        /\ ~stopping => Places = conns
        /\ stopping => Places = toClose
        /\ ~stopping' => Places' = conns'
        /\ stopping' => Places' = toClose'
        /\ held \in [Thread -> Conn \cup {NoConn}]
        /\ \A t \in Thread : held[t] # NoConn <=> tpc[t] = "use"
    <2>1. ~stopping' => Places' = conns'
      BY EmptyConcat DEF OwnerInOrder, TypeOK, Places
    <2>2. stopping' => Places' = toClose'
      BY EmptyConcat DEF OwnerInOrder, TypeOK, Places
    <2> QED BY <2>1, <2>2, OnceIs, PlacesOf, RangeType DEF SqlInv, TypeOK, HeldWhileUsed
  <1>1. ASSUME InitOk \/ InitFails PROVE Once(Places', open', held')
    <2>0. PICK k \in Nat : \E s \in [1..k -> Conn \ open] :
            IsInjective(s) /\ conns' = conns \o s /\ open' = open \cup Range(s)
      BY <1>1 DEF InitOk, InitFails
    <2>1. PICK s \in [1..k -> Conn \ open] :
            IsInjective(s) /\ conns' = conns \o s /\ open' = open \cup Range(s)
      BY <2>0
    <2>2. /\ conns = <<>> /\ open = {} /\ ~stopping /\ held' = held
          /\ \A t \in Thread : held[t] = NoConn
      BY <1>0, <1>1 DEF InitOk, InitFails, SqlInv, OwnerInOrder
    <2>3. s \in Seq(Conn) /\ Range(s) \subseteq Conn
      BY Pushed DEF SqlInv
    <2>4. ~stopping'
      BY <1>1, <2>2 DEF InitOk, InitFails
    <2>5. Places' = s
      BY <1>0, <2>1, <2>2, <2>3, <2>4, EmptyConcat
    <2> QED BY <2>1, <2>2, <2>3, <2>5 DEF Once
  <1>2. ASSUME ShutdownSwap PROVE Once(Places', open', held')
    BY <1>0, <1>2 DEF ShutdownSwap
  <1>3. ASSUME CloseNext PROVE Once(Places', open', held')
    <2>1. /\ stopping /\ stopping' /\ toClose # <<>>
          /\ toClose' = Tail(toClose) /\ open' = open \ {Head(toClose)} /\ held' = held
      BY <1>3 DEF CloseNext, SqlInv, OwnerInOrder
    <2>2. Places # <<>> /\ Places' = Tail(Places) /\ open' = open \ {Head(Places)}
      BY <1>0, <2>1
    <2>3. /\ IsInjective(Tail(Places)) /\ Head(Places) \in Range(Places)
          /\ Range(Tail(Places)) = Range(Places) \ {Head(Places)}
      BY <1>0, <2>2, TailOnce DEF Once
    <2> QED BY <1>0, <2>1, <2>2, <2>3 DEF Once
  <1>4. ASSUME NEW t \in Thread, TakeConn(t) PROVE Once(Places', open', held')
    <2>1. /\ Places # <<>> /\ Places' = Tail(Places) /\ open' = open
          /\ held' = [held EXCEPT ![t] = Head(Places)] /\ held[t] = NoConn
      BY <1>0, <1>4 DEF TakeConn
    <2>2. /\ IsInjective(Tail(Places)) /\ Head(Places) \in Range(Places)
          /\ Range(Tail(Places)) = Range(Places) \ {Head(Places)}
      BY <1>0, <2>1, TailOnce DEF Once
    <2>3. /\ held'[t] = Head(Places) /\ Head(Places) # NoConn
          /\ \A u \in Thread \ {t} : held'[u] = held[u]
      BY <1>0, <2>1, <2>2
    <2>4. {held'[u] : u \in {v \in Thread : held'[v] # NoConn}} =
            {held[u] : u \in {v \in Thread : held[v] # NoConn}} \cup {Head(Places)}
      BY <2>1, <2>3
    <2> QED BY <1>0, <2>1, <2>2, <2>3, <2>4 DEF Once
  <1>5. ASSUME NEW t \in Thread, Release(t) PROVE Once(Places', open', held')
    <2>1. /\ Places' = Append(Places, held[t]) /\ open' = open
          /\ held' = [held EXCEPT ![t] = NoConn] /\ held[t] # NoConn /\ held[t] \in Conn
      BY <1>0, <1>5 DEF Release
    <2>2. held[t] \notin Range(Places)
      BY <1>0 DEF Once
    <2>3. /\ IsInjective(Append(Places, held[t]))
          /\ Range(Append(Places, held[t])) = Range(Places) \cup {held[t]}
      BY <1>0, <2>1, <2>2, AppendOnce DEF Once
    <2>4. held'[t] = NoConn /\ \A u \in Thread \ {t} : held'[u] = held[u]
      BY <1>0, <2>1
    <2>5. {held[u] : u \in {v \in Thread : held[v] # NoConn}} =
            {held'[u] : u \in {v \in Thread : held'[v] # NoConn}} \cup {held[t]}
      BY <2>1, <2>4
    <2> QED BY <1>0, <2>1, <2>2, <2>3, <2>4, <2>5 DEF Once
  <1>6. ASSUME NEW t \in Thread, ReleaseStopping(t) PROVE Once(Places', open', held')
    <2>1. /\ Places' = Places /\ open' = open \ {held[t]}
          /\ held' = [held EXCEPT ![t] = NoConn] /\ held[t] # NoConn
      BY <1>0, <1>6 DEF ReleaseStopping
    <2>2. held'[t] = NoConn /\ \A u \in Thread \ {t} : held'[u] = held[u]
      BY <1>0, <2>1
    <2>3. held[t] \notin Range(Places) /\ \A u \in Thread \ {t} : held[u] # held[t]
      BY <1>0, <2>1 DEF Once
    <2>4. {held'[u] : u \in {v \in Thread : held'[v] # NoConn}} =
            {held[u] : u \in {v \in Thread : held[v] # NoConn}} \ {held[t]}
      BY <2>1, <2>2, <2>3
    <2> QED BY <1>0, <2>1, <2>2, <2>3, <2>4 DEF Once
  <1>7. ASSUME UNCHANGED <<conns, toClose, stopping, open, held>>
        PROVE  Once(Places', open', held')
    BY <1>0, <1>7
  <1> QED
    BY <1>1, <1>2, <1>3, <1>4, <1>5, <1>6, <1>7
    DEF Next, OwnerStep, ThreadStep, vars, NotifyAll, ShutdownEnd,
        BeginGet, GetNull, WaitConn, Wake, NotifyOne

-----------------------------------------------------------------------------
(* No wake-up is lost: whatever puts a connection into the queue makes one *)
(* thread busy, and a busy thread stops being so only by taking one, by    *)
(* finding none, by waking another, or when nobody sleeps.                 *)
LEMMA WakerIs == WaiterHasAWaker <=> (Waiters # {} => Len(conns) <= Cardinality(Busy))
  BY DEF WaiterHasAWaker, Busy

LEMMA BusyFinite == IsFiniteSet(Busy) /\ Cardinality(Busy) \in Nat
  <1>1. Busy \in SUBSET Thread
    BY DEF Busy
  <1> QED BY <1>1, SqlAssumption, FS_Subset, FS_CardinalityType

LEMMA WakeStep == SqlInv /\ TypeOK' /\ [Next]_vars => WaiterHasAWaker'
  <1> DEFINE Enough == Waiters # {} => Len(conns) <= Cardinality(Busy)
  <1> SUFFICES ASSUME SqlInv, TypeOK', [Next]_vars PROVE Enough'
    BY DEF WaiterHasAWaker, Busy
  <1> USE SqlAssumption
  <1>0. /\ Enough /\ IsFiniteSet(Busy) /\ Cardinality(Busy) \in Nat
        /\ conns \in Seq(Conn) /\ Len(conns) \in Nat
        /\ Busy \subseteq Thread /\ Waiters \subseteq Thread
        /\ tpc \in [Thread -> {"idle", "check", "wait", "use", "notify_one"}]
    BY WakerIs, BusyFinite DEF SqlInv, TypeOK, Busy, Waiters
  <1>1. ASSUME InitOk \/ InitFails PROVE Enough'
    <2>1. Waiters' = {}
      BY <1>1 DEF InitOk, InitFails, SqlInv, OwnerInOrder, Waiters
    <2> QED BY <2>1
  <1>2. ASSUME ShutdownSwap \/ NotifyAll PROVE Enough'
    <2>1. conns' = <<>> \/ Waiters' = {}
      BY <1>2 DEF ShutdownSwap, NotifyAll, Waiters, TypeOK
    <2>2. Cardinality(Busy') \in Nat
      <3>1. Busy' \in SUBSET Thread
        BY DEF Busy
      <3> QED BY <3>1, FS_Subset, FS_CardinalityType
    <2> QED BY <2>1, <2>2
  <1>3. ASSUME NEW t \in Thread, TakeConn(t) PROVE Enough'
    <2>1. Waiters' = Waiters /\ Busy' = Busy \ {t} /\ t \in Busy
      BY <1>0, <1>3 DEF TakeConn, Waiters, Busy
    <2>2. Len(conns') = Len(conns) - 1
      BY <1>0, <1>3 DEF TakeConn
    <2>3. Cardinality(Busy') = Cardinality(Busy) - 1
      BY <1>0, <2>1, FS_RemoveElement
    <2> QED BY <1>0, <2>1, <2>2, <2>3
  <1>4. ASSUME NEW t \in Thread, Release(t) PROVE Enough'
    <2>1. Waiters' = Waiters /\ Busy' = Busy \cup {t} /\ t \notin Busy
      BY <1>0, <1>4 DEF Release, Waiters, Busy
    <2>2. Len(conns') = Len(conns) + 1
      BY <1>0, <1>4 DEF Release
    <2>3. Cardinality(Busy') = Cardinality(Busy) + 1
      BY <1>0, <2>1, FS_AddElement
    <2> QED BY <1>0, <2>1, <2>2, <2>3
  <1>5. ASSUME NEW t \in Thread, BeginGet(t) \/ Wake(t) PROVE Enough'
    <2>1. /\ Waiters' \subseteq Waiters /\ Busy' = Busy \cup {t} /\ t \notin Busy
          /\ conns' = conns
      BY <1>0, <1>5 DEF BeginGet, Wake, Waiters, Busy
    <2>2. Cardinality(Busy') = Cardinality(Busy) + 1
      BY <1>0, <2>1, FS_AddElement
    <2> QED BY <1>0, <2>1, <2>2
  <1>6. ASSUME NEW t \in Thread, GetNull(t) \/ WaitConn(t) PROVE Enough'
    <2>1. conns' = <<>> /\ Busy' = Busy \ {t}
      BY <1>0, <1>6 DEF GetNull, WaitConn, Busy, SqlInv, OwnerInOrder
    <2>2. Cardinality(Busy') \in Nat
      BY <1>0, <2>1, FS_RemoveElement, FS_CardinalityType
    <2> QED BY <2>1, <2>2
  <1>7. ASSUME NEW t \in Thread, NotifyOne(t) PROVE Enough'
    <2>1. CASE Waiters = {} /\ tpc' = [tpc EXCEPT ![t] = "idle"]
      <3>1. Waiters' = {}
        BY <1>0, <2>1 DEF Waiters
      <3> QED BY <3>1
    <2>2. ASSUME NEW u \in Waiters, tpc' = [tpc EXCEPT ![t] = "idle", ![u] = "check"]
          PROVE  Enough'
      <3>1. /\ u # t /\ t \in Busy /\ u \notin Busy /\ conns' = conns
            /\ Busy' = (Busy \ {t}) \cup {u} /\ Waiters # {}
        BY <1>0, <1>7, <2>2 DEF NotifyOne, Waiters, Busy
      <3>2. IsFiniteSet(Busy \ {t}) /\ Cardinality(Busy \ {t}) = Cardinality(Busy) - 1
        BY <1>0, <3>1, FS_RemoveElement
      <3>3. Cardinality(Busy') = Cardinality(Busy \ {t}) + 1
        BY <3>1, <3>2, FS_AddElement
      <3> QED BY <1>0, <3>1, <3>2, <3>3
    <2> QED BY <1>7, <2>1, <2>2 DEF NotifyOne
  <1>8. ASSUME NEW t \in Thread, ReleaseStopping(t) PROVE Enough'
    <2>1. Waiters' = Waiters /\ Busy' = Busy /\ conns' = conns
      BY <1>0, <1>8 DEF ReleaseStopping, Waiters, Busy
    <2> QED BY <1>0, <2>1
  <1>9. ASSUME UNCHANGED <<conns, tpc>> PROVE Enough'
    <2>1. Waiters' = Waiters /\ Busy' = Busy /\ conns' = conns
      BY <1>9 DEF Waiters, Busy
    <2> QED BY <1>0, <2>1
  <1> HIDE DEF Enough
  <1> QED
    BY <1>1, <1>2, <1>3, <1>4, <1>5, <1>6, <1>7, <1>8, <1>9
    DEF Next, OwnerStep, ThreadStep, vars, CloseNext, ShutdownEnd

THEOREM SqlInvariant == Spec => []SqlInv
  <1>1. SqlInv /\ [Next]_vars => SqlInv'
    BY TypeStep, PhaseStep, PlaceStep, WakeStep DEF SqlInv
  <1> QED BY SqlInit, <1>1, PTL DEF Spec

-----------------------------------------------------------------------------
(* The variables of sql_connection_pool.cpp keep their types. *)
THEOREM SqlTypeCorrect == Spec => []TypeOK
  BY SqlInvariant, PTL DEF SqlInv

(* No handle is leaked, shared by two guards, used after it was closed or  *)
(* closed twice.                                                           *)
THEOREM SqlOnePlaceEach == Spec => []OnePlaceEach
  BY SqlInvariant, PTL DEF SqlInv

(* No thread sleeps in get_connection() while a connection is there and    *)
(* nobody is on the way to it, nor through shutdown().                     *)
THEOREM SqlWakes == Spec => [](WaiterHasAWaker /\ StopHasAWaker)
  BY SqlInvariant, PTL DEF SqlInv

(* shutdown() leaves open only what guards still hold, also when init()    *)
(* has failed half way.                                                    *)
THEOREM SqlNothingLeaks == Spec => []NothingLeaks
  <1>1. SqlInv => NothingLeaks
    <2> SUFFICES ASSUME SqlInv, opc = "done"
                 PROVE  open = {held[t] : t \in {u \in Thread : held[u] # NoConn}}
      BY DEF NothingLeaks
    <2>1. Places = <<>>
      BY PlacesOf DEF SqlInv, OwnerInOrder
    <2> QED BY <2>1, EmptyOnce DEF SqlInv, OnePlaceEach
  <1> QED BY SqlInvariant, <1>1, PTL
=============================================================================
