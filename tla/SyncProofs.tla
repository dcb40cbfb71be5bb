----------------------------- MODULE SyncProofs ------------------------------
(***************************************************************************)
(* What TLAPS proves of the synchronisation of xv6-threads: of its user    *)
(* library (Ulib) and of its barrier system calls (Barrier).               *)
(***************************************************************************)
EXTENDS MCUlib, Barrier, FiniteSetTheorems, SequenceTheorems, TLAPS

-----------------------------------------------------------------------------
(* The locks and semaphores of ulib.c, for any programs that release what  *)
(* they have acquired, create a thread once and initiate a semaphore       *)
(* before they use it: locks exclude, semaphores let nobody through for    *)
(* whom there is no unit, and forget nobody whom no signal overtook.       *)

(* Nothing happened to a thread yet before it is created, and afterwards   *)
(* the program has passed the place that creates it.                       *)
Births ==
  \A u \in Threads :
    /\ at[u] = "unborn" => ip[u] = 1 /\ u # Main
    /\ at[u] # "unborn" /\ u # Main =>
         \E t \in Threads, i \in Nat : i < ip[t] /\ Creates(Program[t], i, u)

(* What a step of t can do to the other threads: wake or create them.      *)
Others(t) ==
  /\ ip' = [u \in Threads |-> ip'[u]] /\ at' = [u \in Threads |-> at'[u]]
  /\ \A u \in Threads \ {t} :
       /\ ip'[u] = ip[u]
       /\ \/ at'[u] = at[u]
          \/ /\ at[u] = "asleep" /\ at'[u] = "awake"
             /\ Broadcast(t) \/ Signal(t)
             /\ On(u, "asleep", Op(t).m)
          \/ at[u] = "unborn" /\ at'[u] = "client" /\ ThreadCreate(t)

(* The call of t goes on, or returns.                                      *)
GoesOn(t, place) == ip'[t] = ip[t] /\ at'[t] = place
Returns(t) == ip'[t] = ip[t] + 1 /\ at'[t] = NextPlace(t)

-----------------------------------------------------------------------------
LEMMA OpIsOp ==
  ASSUME TypeOK, NEW t \in Threads, InCall(t)
  PROVE  /\ Op(t) \in Ops
         /\ Op(t).op \in MonitorCalls \cup OtherCalls
         /\ Op(t).op \in MonitorCalls \cup {"while", "semInit"} => Op(t).m \in Monitors
         /\ Op(t).op \in {"semInit", "set"} => Op(t).v \in Values
         /\ Op(t).op = "thread_create" =>
              Op(t).t \in Threads /\ Creates(Program[t], ip[t], Op(t).t)
         /\ Op(t).op \in {"acquireLock", "releaseLock"} =>
              Op(t) = [op |-> Op(t).op, m |-> Op(t).m]
<1>1. Program[t] \in Seq(Ops) /\ ip[t] \in DOMAIN Program[t]
  BY UlibAssumption DEF TypeOK, Program, UlibAssumption
<1>2. Op(t) \in Ops
  BY <1>1 DEF Op
<1>3. CASE Op(t) \in [op : MonitorCalls, m : Monitors]
  BY <1>2, <1>3 DEF MonitorCalls, OtherCalls
<1>4. CASE Op(t) \in [op : {"semInit", "while"}, m : Monitors, v : Values]
  BY <1>2, <1>4 DEF MonitorCalls, OtherCalls
<1>5. CASE Op(t) \in [op : {"set"}, v : Values]
  BY <1>2, <1>5 DEF MonitorCalls, OtherCalls
<1>6. CASE Op(t) \in [op : {"thread_create", "thread_join"}, t : Threads]
  <2>1. Op(t).op = "thread_create" => Creates(Program[t], ip[t], Op(t).t)
    BY <1>1, <1>6 DEF Creates, Op
  <2> QED
    BY <1>2, <1>6, <2>1 DEF MonitorCalls, OtherCalls
<1> QED
  BY <1>2, <1>3, <1>4, <1>5, <1>6 DEF Ops

(* A thread is created once: at the call that creates it, it is unborn.    *)
LEMMA CreatedIsUnborn ==
  ASSUME TypeOK, Births, NEW t \in Threads, Calls(t, "thread_create")
  PROVE  at[Op(t).t] = "unborn" /\ Op(t).t # t
<1>1. InCall(t)
  BY DEF Calls, InCall
<1>2. PICK u \in Threads : u = Op(t).t /\ Creates(Program[t], ip[t], u)
  BY <1>1, OpIsOp DEF Calls
<1>3. u # Main /\ \A s \in Threads : \A j \in DOMAIN Program[s] :
        Creates(Program[s], j, u) => s = t /\ j = ip[t]
  BY <1>2, DisciplineAssumption
     DEF DisciplineAssumption, TypeOK, Program, Creates
<1>4. at[u] = "unborn"
  <2> SUFFICES ASSUME at[u] # "unborn" PROVE FALSE
    OBVIOUS
  <2>1. PICK s \in Threads, i \in Nat : i < ip[s] /\ Creates(Program[s], i, u)
    BY <1>3 DEF Births
  <2>2. s = t /\ i = ip[t]
    BY <1>3, <2>1 DEF Creates
  <2> QED
    BY <2>1, <2>2
<1> QED
  BY <1>1, <1>2, <1>4 DEF InCall

LEMMA ResumeEffect ==
  ASSUME TypeOK, NEW t \in Threads, NEW W, Resume(t, W), W \subseteq Threads,
         \A u \in W : Broadcast(t) /\ On(u, "asleep", Op(t).m)
  PROVE  Others(t) /\ Returns(t)
  BY DEF Resume, Others, Returns, TypeOK, On

LEMMA GotoEffect ==
  ASSUME TypeOK, NEW t \in Threads, NEW place, Goto(t, place)
  PROVE  Others(t) /\ GoesOn(t, place)
  BY DEF Goto, Others, GoesOn, TypeOK

(* What each step does to ip and at.                                       *)
LEMMA CallEffect ==
  ASSUME TypeOK, NEW t \in Threads,
         Lock(t) \/ Unlock(t) \/ WhileEnds(t) \/ Broadcast(t) \/ SemReturn(t)
           \/ SemInit(t) \/ SetX(t) \/ ThreadJoin(t)
  PROVE  InCall(t) /\ Others(t) /\ Returns(t)
<1>1. InCall(t)
  BY DEF Lock, Unlock, WhileEnds, Broadcast, SemReturn, SemInit, SetX,
         ThreadJoin, Calls, InCall
<1>2. PICK W : /\ Resume(t, W)
               /\ W \subseteq Threads
               /\ \A u \in W : Broadcast(t) /\ On(u, "asleep", Op(t).m)
  <2>1. CASE Broadcast(t)
    BY <2>1 DEF Broadcast, Sleepers
  <2>2. CASE ~Broadcast(t)
    BY <2>2 DEF Lock, Unlock, WhileEnds, SemReturn, SemInit, SetX, ThreadJoin,
                Return
  <2> QED
    BY <2>1, <2>2
<1> QED
  BY <1>1, <1>2, ResumeEffect

LEMMA ThreadCreateEffect ==
  ASSUME TypeOK, Births, NEW t \in Threads, ThreadCreate(t)
  PROVE  /\ InCall(t) /\ Others(t) /\ Returns(t)
         /\ Creates(Program[t], ip[t], Op(t).t)
         /\ \A u \in Threads : at[u] = "unborn" /\ at'[u] # "unborn" => u = Op(t).t
<1>1. InCall(t) /\ Calls(t, "thread_create")
  BY DEF ThreadCreate, Calls, InCall
<1>2. PICK u \in Threads : u = Op(t).t /\ Creates(Program[t], ip[t], u)
  BY <1>1, OpIsOp DEF Calls
<1>3. at[u] = "unborn" /\ u # t
  BY <1>1, <1>2, CreatedIsUnborn
<1>4. /\ at' = [at EXCEPT ![t] = NextPlace(t), ![u] = "client"]
      /\ ip' = [ip EXCEPT ![t] = @ + 1]
  BY <1>2 DEF ThreadCreate
<1>5. at \in [Threads -> Places] /\ ip \in [Threads -> Nat \ {0}]
  BY DEF TypeOK
<1>6. Others(t)
  BY <1>3, <1>4, <1>5 DEF Others
<1>7. Returns(t)
  BY <1>3, <1>4, <1>5 DEF Returns
<1>8. \A v \in Threads : at[v] = "unborn" /\ at'[v] # "unborn" => v = u
  BY <1>1, <1>3, <1>4, <1>5 DEF InCall
<1> QED
  BY <1>1, <1>2, <1>6, <1>7, <1>8

LEMMA SignalEffect ==
  ASSUME TypeOK, NEW t \in Threads, Signal(t)
  PROVE  InCall(t) /\ Others(t) /\ GoesOn(t, "release")
<1>1. PICK W \in OneSleeper(Op(t).m) :
        at' = [u \in Threads |-> IF u = t THEN "release"
                                 ELSE IF u \in W THEN "awake" ELSE at[u]]
  BY DEF Signal
<1>2. \A u \in W : On(u, "asleep", Op(t).m)
  BY DEF OneSleeper, Sleepers
<1>3. \A u \in W : at[u] = "asleep"
  BY <1>2 DEF On
<1>4. InCall(t) /\ ip' = ip
  BY DEF Signal
<1> QED
  BY <1>1, <1>2, <1>3, <1>4 DEF Others, GoesOn, TypeOK

LEMMA StepEffect ==
  ASSUME TypeOK, Births, NEW t \in Threads, Step(t)
  PROVE  /\ test' = test /\ InCall(t) /\ Others(t)
         /\ \/ Returns(t)
            \/ \E place \in Places : /\ GoesOn(t, place)
                                     /\ place \notin {"unborn", "exited"}
                                     /\ Op(t).op \in OpsAt(place)
<1>1. test' = test
  BY DEF Step, Library, Lock, Unlock, CondWait, SleepChan, Reacquire, WhileEnds,
         Broadcast, Signal, SemDown, SemUp, SemReturn, SemInit, SetX,
         ThreadCreate, ThreadJoin
<1>2. CASE CondWait(t)
  <2>1. InCall(t) /\ Op(t).op \in OpsAt("sleepChan")
    BY <1>2 DEF CondWait, Calls, InCall, OpsAt, TypeOK
  <2> QED
    BY <1>1, <1>2, <2>1, GotoEffect DEF CondWait, Places
<1>3. CASE SleepChan(t)
  <2>1. InCall(t) /\ Op(t).op \in OpsAt("asleep")
    BY <1>3 DEF SleepChan, OpsAt, TypeOK
  <2> QED
    BY <1>1, <1>3, <2>1, GotoEffect DEF SleepChan, Places
<1>4. CASE Reacquire(t)
  <2>1. InCall(t) /\ Op(t).op \in {"semDown", "while", "condWait"}
    BY <1>4 DEF Reacquire, OpsAt, TypeOK
  <2>2. CASE Op(t).op = "semDown"
    <3>1. Goto(t, "release")
      BY <1>4, <2>2 DEF Reacquire
    <3> QED
      BY <1>1, <2>1, <2>2, <3>1, GotoEffect DEF Places, OpsAt
  <2>3. CASE Op(t).op = "while"
    <3>1. Goto(t, "client")
      BY <1>4, <2>3 DEF Reacquire
    <3> QED
      BY <1>1, <2>1, <2>3, <3>1, GotoEffect DEF Places, OpsAt, OtherCalls
  <2>4. CASE Op(t).op = "condWait"
    <3>1. Resume(t, {})
      BY <1>4, <2>4 DEF Reacquire, Return
    <3> QED
      BY <1>1, <2>1, <3>1, ResumeEffect
  <2> QED
    BY <2>1, <2>2, <2>3, <2>4
<1>5. CASE SemDown(t)
  <2>1. InCall(t) /\ Op(t).op = "semDown"
    BY <1>5 DEF SemDown, Calls, InCall
  <2>2. PICK place \in {"wait", "release"} : Goto(t, place)
    BY <1>5 DEF SemDown
  <2> QED
    BY <1>1, <2>1, <2>2, GotoEffect DEF Places, OpsAt
<1>6. CASE SemUp(t)
  <2>1. InCall(t) /\ Op(t).op = "semUp" /\ Goto(t, "signal")
    BY <1>6 DEF SemUp, Calls, InCall
  <2> QED
    BY <1>1, <2>1, GotoEffect DEF Places, OpsAt
<1>7. CASE Signal(t)
  <2>1. Op(t).op \in OpsAt("release")
    BY <1>7 DEF Signal, OpsAt, TypeOK
  <2> QED
    BY <1>1, <1>7, <2>1, SignalEffect DEF Places
<1> QED
  BY <1>1, <1>2, <1>3, <1>4, <1>5, <1>6, <1>7, CallEffect, ThreadCreateEffect
     DEF Step, Library

-----------------------------------------------------------------------------
LEMMA TypeInit == Init => TypeOK /\ Births
<1> SUFFICES ASSUME Init PROVE TypeOK /\ Births
  OBVIOUS
<1>1. test \in DOMAIN Programs /\ Main \in Threads /\ x \in Values
  BY UlibAssumption DEF Init, UlibAssumption
<1>2. \A t \in Threads : Program[t] \in Seq(Ops) /\ Program[t] # <<>>
  BY <1>1, UlibAssumption DEF UlibAssumption, Program
<1>3. \A t \in Threads : 1 \in DOMAIN Program[t] /\ Program[t][1] \in Ops
  BY <1>2
<1>4. \A o \in Ops : o.op \in MonitorCalls \cup OtherCalls
  BY DEF Ops, MonitorCalls, OtherCalls
<1>5. ASSUME NEW t \in Threads, InCall(t)
      PROVE  ip[t] \in DOMAIN Program[t] /\ Op(t).op \in OpsAt(at[t])
  <2>1. at[t] = "client" /\ ip[t] = 1
    BY <1>5 DEF Init, InCall
  <2> QED
    BY <1>3, <1>4, <2>1 DEF Op, OpsAt
<1>6. TypeOK
  <2>1. lockvar \in [Monitors -> {0, 1}] /\ ctr \in [Monitors -> Int]
    BY DEF Init
  <2>3. overtaken \in BOOLEAN
    BY Zenon DEF Init
  <2>2. ip \in [Threads -> Nat \ {0}] /\ at \in [Threads -> Places]
    BY DEF Init, Places
  <2> QED
    BY <1>1, <1>5, <2>1, <2>2, <2>3 DEF TypeOK
<1>7. Births
  BY DEF Init, Births
<1> QED
  BY <1>6, <1>7

LEMMA BirthsStep ==
  ASSUME TypeOK, Births, NEW t \in Threads, Step(t)
  PROVE  Births'
<1>1. /\ test' = test /\ InCall(t) /\ Others(t)
      /\ ip[t] \in Nat /\ ip'[t] \in {ip[t], ip[t] + 1} /\ at'[t] # "unborn"
  BY StepEffect DEF Returns, GoesOn, NextPlace, TypeOK
<1>2. \A u \in Threads : ip[u] \in Nat /\ ip'[u] \in Nat /\ ip[u] <= ip'[u]
  BY <1>1 DEF Others, TypeOK
<1>3. ASSUME NEW u \in Threads, at'[u] = "unborn" PROVE ip'[u] = 1 /\ u # Main
  BY <1>1, <1>3 DEF Others, Births
<1>4. ASSUME NEW u \in Threads, at'[u] # "unborn", u # Main
      PROVE  \E s \in Threads, i \in Nat :
               i < ip'[s] /\ Creates(Program'[s], i, u)
  <2>1. Program' = Program
    BY <1>1 DEF Program
  <2>2. CASE at[u] # "unborn"
    <3>1. PICK s \in Threads, i \in Nat : i < ip[s] /\ Creates(Program[s], i, u)
      BY <1>4, <2>2 DEF Births
    <3> QED
      BY <1>2, <2>1, <3>1
  <2>3. CASE at[u] = "unborn"
    <3>1. ThreadCreate(t)
      BY <1>1, <1>4, <2>3 DEF Others, InCall
    <3>2. Creates(Program[t], ip[t], u) /\ ip'[t] = ip[t] + 1
      BY <1>4, <2>3, <3>1, ThreadCreateEffect DEF Returns
    <3> QED
      BY <1>1, <2>1, <3>2
  <2> QED
    BY <2>2, <2>3
<1> QED
  BY <1>3, <1>4 DEF Births

LEMMA TypeStep ==
  ASSUME TypeOK, Births, NEW t \in Threads, Step(t)
  PROVE  TypeOK'
<1>1. test' = test /\ Program' = Program /\ InCall(t) /\ Others(t)
  BY StepEffect DEF Program
<1>2. lockvar' \in [Monitors -> {0, 1}]
  BY DEF TypeOK, Step, Library, Lock, Unlock, CondWait, SleepChan, Reacquire,
         WhileEnds, Broadcast, Signal, SemDown, SemUp, SemReturn, SemInit, SetX,
         ThreadCreate, ThreadJoin, AcquireLock, ReleaseLock, LockAgain, GiveLock
<1>3. ctr' \in [Monitors -> Int]
  <2>1. \A m, n : n \in Int => [ctr EXCEPT ![m] = n] \in [Monitors -> Int]
    BY DEF TypeOK
  <2>2. CASE SemInit(t)
    <3>1. Op(t).v \in Int
      BY <1>1, <2>2, OpIsOp, UlibAssumption DEF SemInit, Calls, UlibAssumption
    <3> QED
      BY <2>1, <2>2, <3>1 DEF SemInit
  <2>3. CASE SemDown(t) \/ SemUp(t)
    <3>1. Op(t).m \in Monitors
      BY <1>1, <2>3, OpIsOp DEF SemDown, SemUp, Calls, MonitorCalls
    <3>2. ctr[Op(t).m] - 1 \in Int /\ ctr[Op(t).m] + 1 \in Int
      BY <3>1 DEF TypeOK
    <3> QED
      BY <2>1, <2>3, <3>2 DEF SemDown, SemUp
  <2>4. CASE ~(SemInit(t) \/ SemDown(t) \/ SemUp(t))
    BY <2>4 DEF TypeOK, Step, Library, Lock, Unlock, CondWait, SleepChan,
         Reacquire, WhileEnds, Broadcast, Signal, SemReturn, SetX, ThreadCreate,
         ThreadJoin
  <2> QED
    BY <2>2, <2>3, <2>4
<1>4. x' \in Values
  <2>1. SetX(t) => Op(t).v \in Values
    BY <1>1, OpIsOp DEF SetX, Calls
  <2> QED
    BY <2>1 DEF TypeOK, Step, Library, Lock, Unlock, CondWait, SleepChan,
         Reacquire, WhileEnds, Broadcast, Signal, SemDown, SemUp, SemReturn,
         SemInit, SetX, ThreadCreate, ThreadJoin
<1>5. overtaken' \in BOOLEAN
  BY DEF TypeOK, Step, Library, Lock, Unlock, CondWait, SleepChan, Reacquire,
         WhileEnds, Broadcast, Signal, SemDown, SemUp, SemReturn, SemInit, SetX,
         ThreadCreate, ThreadJoin, NoteOvertaking
<1>6. \A u \in Threads : Program[u] \in Seq(Ops) /\ Program[u] # <<>>
  BY UlibAssumption DEF UlibAssumption, Program, TypeOK
<1>7. ASSUME NEW u \in Threads
      PROVE  /\ ip'[u] \in Nat \ {0} /\ at'[u] \in Places
             /\ InCall(u)' => /\ ip'[u] \in DOMAIN Program[u]
                              /\ Program[u][ip'[u]].op \in OpsAt(at'[u])
  <2>1. \A i \in DOMAIN Program[u] :
          Program[u][i].op \in MonitorCalls \cup OtherCalls
    BY <1>6 DEF Ops, MonitorCalls, OtherCalls
  <2>2. CASE u = t /\ Returns(t)
    <3>1. ip[u] \in Nat \ {0} /\ ip[u] \in DOMAIN Program[u]
      BY <1>1, <2>2 DEF TypeOK
    <3>2. InCall(u)' => ip'[u] \in DOMAIN Program[u] /\ at'[u] = "client"
      BY <1>6, <2>2, <3>1 DEF Returns, NextPlace, InCall
    <3>3. ip'[u] \in Nat \ {0} /\ at'[u] \in Places
      BY <2>2, <3>1 DEF Returns, NextPlace, Places
    <3> QED
      BY <2>1, <3>2, <3>3 DEF OpsAt
  <2>3. CASE u = t /\ ~Returns(t)
    <3>1. PICK place \in Places : GoesOn(t, place) /\ Op(t).op \in OpsAt(place)
      BY <2>3, StepEffect
    <3> QED
      BY <1>1, <2>3, <3>1 DEF GoesOn, TypeOK, Op
  <2>4. CASE u # t /\ at'[u] = at[u]
    BY <1>1, <2>4 DEF Others, TypeOK, InCall, Op
  <2>5. CASE u # t /\ at[u] = "asleep" /\ at'[u] = "awake"
    <3>1. ip[u] \in DOMAIN Program[u] /\ Program[u][ip[u]].op \in OpsAt("asleep")
      BY <2>5 DEF TypeOK, InCall, Op
    <3>2. OpsAt("asleep") = OpsAt("awake")
      BY DEF OpsAt
    <3> QED
      BY <1>1, <2>5, <3>1, <3>2 DEF Others, TypeOK, Places
  <2>6. CASE u # t /\ at[u] = "unborn" /\ at'[u] = "client"
    <3>1. ip'[u] = 1 /\ 1 \in DOMAIN Program[u]
      BY <1>1, <1>6, <2>6 DEF Others, Births
    <3> QED
      BY <2>1, <2>6, <3>1 DEF OpsAt, Places
  <2> QED
    BY <1>1, <2>2, <2>3, <2>4, <2>5, <2>6 DEF Others
<1>8. ip' \in [Threads -> Nat \ {0}] /\ at' \in [Threads -> Places]
  BY <1>1, <1>7 DEF Others
<1>9. \A u \in Threads : InCall(u)' => /\ ip'[u] \in DOMAIN Program'[u]
                                       /\ Op(u)'.op \in OpsAt(at'[u])
  BY <1>1, <1>7 DEF Op
<1> QED
  BY <1>1, <1>2, <1>3, <1>4, <1>5, <1>8, <1>9 DEF TypeOK

-----------------------------------------------------------------------------
(* Mutual exclusion *)

(* A free lock has no holder, and a lock that is taken has one.            *)
Exclusive ==
  \A m \in Monitors :
    /\ lockvar[m] = 0 => Holders(m) = {}
    /\ lockvar[m] = 1 => \E t \in Threads : Holders(m) = {t}

(* A semaphore is not used by a thread that holds its lock.                *)
NotNested ==
  \A t \in Threads :
    InCall(t) /\ at[t] # "client" /\ Op(t).op \in {"semDown", "semUp"} =>
      ~Inside(Program[t], ip[t], Op(t).m)

LInv == TypeOK /\ Births /\ Exclusive /\ NotNested

LEMMA InsideStep ==
  ASSUME NEW calls, NEW i \in Nat \ {0}, NEW m,
         NEW acq, acq = [op |-> "acquireLock", m |-> m],
         NEW rel, rel = [op |-> "releaseLock", m |-> m]
  PROVE  /\ calls[i] = acq => Inside(calls, i + 1, m)
         /\ calls[i] = rel => ~Inside(calls, i + 1, m)
         /\ calls[i] # acq /\ calls[i] # rel =>
              (Inside(calls, i + 1, m) <=> Inside(calls, i, m))
<1>1. acq # rel
  <2>1. acq.op # rel.op
    OBVIOUS
  <2> QED
    BY <2>1
<1>2. Inside(calls, i + 1, m) <=>
        \E j \in 1..i : calls[j] = acq /\ \A k \in (j + 1)..i : calls[k] # rel
  BY DEF Inside
<1>3. Inside(calls, i, m) <=>
        \E j \in 1..(i - 1) :
          calls[j] = acq /\ \A k \in (j + 1)..(i - 1) : calls[k] # rel
  BY DEF Inside
<1>4. ASSUME calls[i] = acq PROVE Inside(calls, i + 1, m)
  <2>1. i \in 1..i /\ \A k \in (i + 1)..i : calls[k] # rel
    OBVIOUS
  <2> QED
    BY <1>2, <1>4, <2>1
<1>5. ASSUME calls[i] = rel PROVE ~Inside(calls, i + 1, m)
  <2> SUFFICES ASSUME NEW j \in 1..i, calls[j] = acq,
                      \A k \in (j + 1)..i : calls[k] # rel
               PROVE  FALSE
    BY <1>2
  <2>1. j # i
    BY <1>1, <1>5
  <2>2. i \in (j + 1)..i
    BY <2>1
  <2> QED
    BY <1>5, <2>2
<1>6. ASSUME calls[i] # acq, calls[i] # rel
      PROVE  Inside(calls, i + 1, m) <=> Inside(calls, i, m)
  <2>1. ASSUME NEW j \in 1..i, calls[j] = acq,
               \A k \in (j + 1)..i : calls[k] # rel
        PROVE  j \in 1..(i - 1) /\ \A k \in (j + 1)..(i - 1) : calls[k] # rel
    BY <1>6, <2>1
  <2>2. ASSUME NEW j \in 1..(i - 1),
               \A k \in (j + 1)..(i - 1) : calls[k] # rel
        PROVE  j \in 1..i /\ \A k \in (j + 1)..i : calls[k] # rel
    BY <1>6, <2>2
  <2> QED
    BY <1>2, <1>3, <2>1, <2>2
<1> QED
  BY <1>4, <1>5, <1>6

(* Who holds a lock, seen from a thread.                                   *)
LEMMA HoldersDef ==
  ASSUME NEW t \in Threads, NEW m
  PROVE  t \in Holders(m) <=>
           /\ InCall(t)
           /\ \/ \E p \in {"wait", "signal", "release"} : On(t, p, m)
              \/ /\ Inside(Program[t], ip[t], m)
                 /\ \A p \in {"sleepChan", "asleep", "awake"} : ~On(t, p, m)
  BY DEF Holders

LEMMA AtClient ==
  ASSUME NEW t \in Threads, NEW m, at[t] = "client"
  PROVE  t \in Holders(m) <=> Inside(Program[t], ip[t], m)
  BY HoldersDef DEF On, InCall

LEMMA NobodyInside ==
  ASSUME TypeOK, Births, NEW u \in Threads, at[u] = "unborn", NEW m
  PROVE  ~Inside(Program[u], 1, m)
  BY DEF Inside

(* A step of t changes nothing for the others.                             *)
LEMMA OthersHold ==
  ASSUME TypeOK, TypeOK', Births, NEW t \in Threads, Others(t), test' = test,
         NEW u \in Threads \ {t}, NEW m
  PROVE  u \in Holders(m)' <=> u \in Holders(m)
<1>1. Program' = Program /\ ip'[u] = ip[u]
  BY DEF Program, Others
<1>2. CASE at'[u] = at[u]
  BY <1>1, <1>2 DEF Holders, On, InCall, Op
<1>3. CASE at[u] = "asleep" /\ at'[u] = "awake"
  <2>1. InCall(u) /\ InCall(u)'
    BY <1>3 DEF InCall
  <2>2. u \in Holders(m) <=> Inside(Program[u], ip[u], m) /\ ~On(u, "asleep", m)
    BY <1>3, <2>1 DEF Holders, On
  <2>3. u \in Holders(m)' <=> Inside(Program[u], ip[u], m) /\ ~On(u, "awake", m)'
    BY <1>1, <1>3, <2>1 DEF Holders, On
  <2>4. On(u, "asleep", m) <=> On(u, "awake", m)'
    BY <1>1, <1>3, <2>1 DEF On, Op
  <2> QED
    BY <2>2, <2>3, <2>4
<1>4. CASE at[u] = "unborn" /\ at'[u] = "client"
  <2>1. u \notin Holders(m)
    BY <1>4 DEF Holders, InCall
  <2>2. ip'[u] = 1 /\ ~Inside(Program[u], 1, m)
    BY <1>1, <1>4, NobodyInside DEF Births
  <2>3. u \notin Holders(m)'
    BY <1>1, <1>4, <2>2 DEF Holders, On, InCall
  <2> QED
    BY <2>1, <2>3
<1> QED
  BY <1>2, <1>3, <1>4 DEF Others

(* After the return of a call only what the program has acquired is held.  *)
LEMMA ReturnsHold ==
  ASSUME TypeOK, NEW t \in Threads, InCall(t), Returns(t), test' = test, NEW m \in Monitors
  PROVE  t \in Holders(m)' <=> Inside(Program[t], ip[t] + 1, m)
<1>1. Program' = Program /\ ip'[t] = ip[t] + 1
  BY DEF Program, Returns
<1>2. CASE at'[t] = "client"
  BY <1>1, <1>2 DEF Holders, On, InCall
<1>3. CASE at'[t] = "exited"
  <2>1. ip[t] = Len(Program[t])
    BY <1>3 DEF Returns, NextPlace
  <2>2. ~Inside(Program[t], Len(Program[t]) + 1, m)
    BY DisciplineAssumption DEF DisciplineAssumption, Balanced, Program, TypeOK
  <2>3. t \notin Holders(m)'
    BY <1>3 DEF Holders, InCall
  <2> QED
    BY <2>1, <2>2, <2>3
<1> QED
  BY <1>2, <1>3 DEF Returns, NextPlace

LEMMA GoesOnHold ==
  ASSUME TypeOK, NEW t \in Threads, NEW place, GoesOn(t, place), test' = test,
         place \notin {"unborn", "exited"},
         Op(t).op \in MonitorCalls \cup {"while"}, NEW m \in Monitors
  PROVE  t \in Holders(m)' <=>
           \/ place \in {"wait", "signal", "release"} /\ Op(t).m = m
           \/ /\ Inside(Program[t], ip[t], m)
              /\ place \in {"sleepChan", "asleep", "awake"} => Op(t).m # m
<1>1. Program' = Program /\ ip'[t] = ip[t] /\ at'[t] = place /\ InCall(t)'
  BY DEF Program, GoesOn, InCall
<1>2. Op(t)' = Op(t)
  BY <1>1 DEF Op
<1>3. \A p : On(t, p, m)' <=> place = p /\ Op(t).m = m
  BY <1>1, <1>2 DEF On
<1> QED
  BY <1>1, <1>3 DEF Holders

-----------------------------------------------------------------------------
(* A step of t leaves the locks alone, takes one or gives one.             *)
LEMMA Keeps ==
  ASSUME LInv, TypeOK', NEW t \in Threads, Others(t), test' = test,
         lockvar' = lockvar,
         \A m \in Monitors : t \in Holders(m)' <=> t \in Holders(m)
  PROVE  Exclusive'
<1>1. \A m \in Monitors : Holders(m)' = Holders(m)
  <2> SUFFICES ASSUME NEW m \in Monitors PROVE Holders(m)' = Holders(m)
    OBVIOUS
  <2>1. \A u \in Threads : u \in Holders(m)' <=> u \in Holders(m)
    BY OthersHold DEF LInv
  <2> QED
    BY <2>1 DEF Holders
<1> QED
  BY <1>1 DEF LInv, Exclusive

LEMMA Takes ==
  ASSUME LInv, TypeOK', NEW t \in Threads, Others(t), test' = test,
         NEW l \in Monitors, lockvar[l] = 0,
         lockvar' = [lockvar EXCEPT ![l] = 1], t \in Holders(l)',
         \A m \in Monitors \ {l} : t \in Holders(m)' <=> t \in Holders(m)
  PROVE  Exclusive'
<1>1. lockvar'[l] = 1 /\ \A m \in Monitors \ {l} : lockvar'[m] = lockvar[m]
  BY DEF LInv, TypeOK
<1>2. \A m : Holders(m) \subseteq Threads /\ Holders(m)' \subseteq Threads
  BY DEF Holders
<1>3. Holders(l)' = {t}
  <2>1. Holders(l) = {}
    BY DEF LInv, Exclusive
  <2>2. \A u \in Threads \ {t} : u \in Holders(l)' <=> u \in Holders(l)
    BY OthersHold DEF LInv
  <2> QED
    BY <1>2, <2>1, <2>2
<1>4. ASSUME NEW m \in Monitors \ {l} PROVE Holders(m)' = Holders(m)
  <2>1. \A u \in Threads : u \in Holders(m)' <=> u \in Holders(m)
    BY OthersHold DEF LInv
  <2> QED
    BY <1>2, <2>1
<1> QED
  BY <1>1, <1>3, <1>4 DEF LInv, Exclusive

LEMMA Gives ==
  ASSUME LInv, TypeOK', NEW t \in Threads, Others(t), test' = test,
         NEW l \in Monitors, lockvar' = [lockvar EXCEPT ![l] = 0],
         t \in Holders(l), t \notin Holders(l)',
         \A m \in Monitors \ {l} : t \in Holders(m)' <=> t \in Holders(m)
  PROVE  Exclusive'
<1>1. lockvar'[l] = 0 /\ \A m \in Monitors \ {l} : lockvar'[m] = lockvar[m]
  BY DEF LInv, TypeOK
<1>2. \A m : Holders(m) \subseteq Threads /\ Holders(m)' \subseteq Threads
  BY DEF Holders
<1>3. Holders(l)' = {}
  <2>1. lockvar[l] \in {0, 1}
    BY DEF LInv, TypeOK
  <2>2. Holders(l) = {t}
    BY <2>1 DEF LInv, Exclusive
  <2>3. \A u \in Threads \ {t} : u \in Holders(l)' <=> u \in Holders(l)
    BY OthersHold DEF LInv
  <2> QED
    BY <1>2, <2>2, <2>3
<1>4. ASSUME NEW m \in Monitors \ {l} PROVE Holders(m)' = Holders(m)
  <2>1. \A u \in Threads : u \in Holders(m)' <=> u \in Holders(m)
    BY OthersHold DEF LInv
  <2> QED
    BY <1>2, <2>1
<1> QED
  BY <1>1, <1>3, <1>4 DEF LInv, Exclusive

(* What a program holds after its call, by the kind of the call.           *)
LEMMA InsideNext ==
  ASSUME TypeOK, NEW t \in Threads, InCall(t), NEW m \in Monitors
  PROVE  /\ Op(t).op = "acquireLock" /\ Op(t).m = m =>
              Inside(Program[t], ip[t] + 1, m)
         /\ Op(t).op = "releaseLock" /\ Op(t).m = m =>
              ~Inside(Program[t], ip[t] + 1, m)
         /\ \/ Op(t).op \in {"acquireLock", "releaseLock"} /\ Op(t).m = m
            \/ (Inside(Program[t], ip[t] + 1, m) <=> Inside(Program[t], ip[t], m))
<1> DEFINE acq == [op |-> "acquireLock", m |-> m]
           rel == [op |-> "releaseLock", m |-> m]
<1>1. ip[t] \in Nat \ {0}
  BY DEF TypeOK
<1>2. /\ Program[t][ip[t]] = acq => Inside(Program[t], ip[t] + 1, m)
      /\ Program[t][ip[t]] = rel => ~Inside(Program[t], ip[t] + 1, m)
      /\ Program[t][ip[t]] # acq /\ Program[t][ip[t]] # rel =>
           (Inside(Program[t], ip[t] + 1, m) <=> Inside(Program[t], ip[t], m))
  BY <1>1, InsideStep
<1>3. Op(t).op \in {"acquireLock", "releaseLock"} =>
        Op(t) = [op |-> Op(t).op, m |-> Op(t).m]
  BY OpIsOp
<1>4. /\ Op(t) = acq => Op(t).op = "acquireLock" /\ Op(t).m = m
      /\ Op(t) = rel => Op(t).op = "releaseLock" /\ Op(t).m = m
  OBVIOUS
<1> HIDE DEF acq, rel
<1>5. /\ Op(t).op = "acquireLock" /\ Op(t).m = m => Op(t) = acq
      /\ Op(t).op = "releaseLock" /\ Op(t).m = m => Op(t) = rel
  BY <1>3 DEF acq, rel
<1> QED
  BY <1>2, <1>4, <1>5 DEF Op

(* A program that releases or waits holds the lock.                        *)
LEMMA UsesWhatItHolds ==
  ASSUME TypeOK, NEW t \in Threads, InCall(t),
         Op(t).op \in {"releaseLock", "condWait", "while"}
  PROVE  Inside(Program[t], ip[t], Op(t).m)
  BY DisciplineAssumption
     DEF DisciplineAssumption, Balanced, Program, TypeOK, Op

-----------------------------------------------------------------------------
LEMMA CallKeeps ==
  ASSUME LInv, TypeOK', NEW t \in Threads,
         \/ WhileEnds(t) \/ Broadcast(t) \/ SemInit(t) \/ SetX(t)
         \/ ThreadCreate(t) \/ ThreadJoin(t)
  PROVE  Exclusive'
<1>1. InCall(t) /\ Others(t) /\ Returns(t) /\ at[t] = "client"
  BY CallEffect, ThreadCreateEffect
     DEF LInv, WhileEnds, Broadcast, SemInit, SetX, ThreadCreate, ThreadJoin, Calls
<1>2. /\ lockvar' = lockvar /\ test' = test
      /\ Op(t).op \notin {"acquireLock", "releaseLock"}
  BY DEF WhileEnds, Broadcast, SemInit, SetX, ThreadCreate, ThreadJoin, Calls
<1>3. ASSUME NEW m \in Monitors PROVE t \in Holders(m)' <=> t \in Holders(m)
  BY <1>1, <1>2, AtClient, ReturnsHold, InsideNext DEF LInv
<1> QED
  BY <1>1, <1>2, <1>3, Keeps

LEMMA GoingOnKeeps ==
  ASSUME LInv, TypeOK', NEW t \in Threads, SleepChan(t) \/ Signal(t)
  PROVE  Exclusive'
<1>1. /\ lockvar' = lockvar /\ test' = test /\ InCall(t)
      /\ Op(t).op \in MonitorCalls \cup {"while"}
  BY DEF LInv, SleepChan, Signal, TypeOK, OpsAt, MonitorCalls
<1>2. CASE SleepChan(t)
  <2>1. at[t] = "sleepChan" /\ Others(t) /\ GoesOn(t, "asleep")
    BY <1>2, GotoEffect DEF LInv, SleepChan
  <2>2. ASSUME NEW m \in Monitors PROVE t \in Holders(m)' <=> t \in Holders(m)
    <3>1. t \in Holders(m)' <=> Inside(Program[t], ip[t], m) /\ Op(t).m # m
      BY <1>1, <2>1, GoesOnHold DEF LInv
    <3>2. t \in Holders(m) <=> Inside(Program[t], ip[t], m) /\ Op(t).m # m
      BY <1>1, <2>1 DEF Holders, On
    <3> QED
      BY <3>1, <3>2
  <2> QED
    BY <1>1, <2>1, <2>2, Keeps
<1>3. CASE Signal(t)
  <2>1. at[t] = "signal" /\ Others(t) /\ GoesOn(t, "release")
    BY <1>3, SignalEffect DEF LInv, Signal
  <2>2. ASSUME NEW m \in Monitors PROVE t \in Holders(m)' <=> t \in Holders(m)
    <3>1. t \in Holders(m)' <=> Inside(Program[t], ip[t], m) \/ Op(t).m = m
      BY <1>1, <2>1, GoesOnHold DEF LInv
    <3>2. t \in Holders(m) <=> Inside(Program[t], ip[t], m) \/ Op(t).m = m
      BY <1>1, <2>1 DEF Holders, On
    <3> QED
      BY <3>1, <3>2
  <2> QED
    BY <1>1, <2>1, <2>2, Keeps
<1> QED
  BY <1>2, <1>3

LEMMA LockTakes ==
  ASSUME LInv, TypeOK', NEW t \in Threads, Lock(t)
  PROVE  Exclusive'
<1>1. InCall(t) /\ Others(t) /\ Returns(t) /\ at[t] = "client" /\ test' = test
  BY CallEffect DEF LInv, Lock, Calls
<1>2. PICK l \in Monitors : l = Op(t).m
  BY <1>1, OpIsOp DEF LInv, Lock, Calls, MonitorCalls
<1>3. /\ lockvar[l] = 0 /\ lockvar' = [lockvar EXCEPT ![l] = 1]
      /\ Op(t).op = "acquireLock"
  BY <1>2 DEF Lock, AcquireLock, Calls
<1>4. t \in Holders(l)'
  BY <1>1, <1>2, <1>3, ReturnsHold, InsideNext DEF LInv
<1>5. ASSUME NEW m \in Monitors \ {l}
      PROVE  t \in Holders(m)' <=> t \in Holders(m)
  BY <1>1, <1>2, AtClient, ReturnsHold, InsideNext DEF LInv
<1> QED
  BY <1>1, <1>3, <1>4, <1>5, Takes

LEMMA UnlockGives ==
  ASSUME LInv, TypeOK', NEW t \in Threads, Unlock(t)
  PROVE  Exclusive'
<1>1. InCall(t) /\ Others(t) /\ Returns(t) /\ at[t] = "client" /\ test' = test
  BY CallEffect DEF LInv, Unlock, Calls
<1>2. PICK l \in Monitors : l = Op(t).m
  BY <1>1, OpIsOp DEF LInv, Unlock, Calls, MonitorCalls
<1>3. lockvar' = [lockvar EXCEPT ![l] = 0] /\ Op(t).op = "releaseLock"
  BY <1>2 DEF Unlock, ReleaseLock, Calls
<1>4. t \in Holders(l)
  BY <1>1, <1>2, <1>3, AtClient, UsesWhatItHolds DEF LInv
<1>5. t \notin Holders(l)'
  BY <1>1, <1>2, <1>3, ReturnsHold, InsideNext DEF LInv
<1>6. ASSUME NEW m \in Monitors \ {l}
      PROVE  t \in Holders(m)' <=> t \in Holders(m)
  BY <1>1, <1>2, AtClient, ReturnsHold, InsideNext DEF LInv
<1> QED
  BY <1>1, <1>3, <1>4, <1>5, <1>6, Gives

(* condWait gives the lock, whether the program or semDown called it ...   *)
LEMMA CondWaitGives ==
  ASSUME LInv, TypeOK', NEW t \in Threads, CondWait(t)
  PROVE  Exclusive'
<1>1. InCall(t) /\ Others(t) /\ GoesOn(t, "sleepChan") /\ test' = test
  BY GotoEffect DEF LInv, CondWait, Calls, InCall
<1>2. \/ at[t] = "client" /\ Op(t).op \in {"condWait", "while"}
      \/ at[t] = "wait" /\ Op(t).op = "semDown"
  BY <1>1 DEF LInv, CondWait, Calls, TypeOK, OpsAt
<1>3. PICK l \in Monitors : l = Op(t).m
  BY <1>1, <1>2, OpIsOp DEF LInv, MonitorCalls
<1>4. lockvar' = [lockvar EXCEPT ![l] = 0]
  BY <1>3 DEF CondWait, GiveLock, ReleaseLock
<1>5. Op(t).op \in MonitorCalls \cup {"while"}
  BY <1>2 DEF MonitorCalls
<1>6. t \in Holders(l)
  <2>1. CASE at[t] = "client"
    BY <1>1, <1>2, <1>3, <2>1, AtClient, UsesWhatItHolds DEF LInv
  <2>2. CASE at[t] = "wait"
    BY <1>1, <1>3, <1>5, <2>2 DEF Holders, On
  <2> QED
    BY <1>2, <2>1, <2>2
<1>7. \A m \in Monitors : t \in Holders(m)' <=> Inside(Program[t], ip[t], m) /\ m # l
  BY <1>1, <1>3, <1>5, GoesOnHold DEF LInv
<1>8. \A m \in Monitors \ {l} :
        t \in Holders(m) <=> Inside(Program[t], ip[t], m)
  BY <1>1, <1>2, <1>3 DEF Holders, On
<1> QED
  BY <1>1, <1>4, <1>6, <1>7, <1>8, Gives

(* ... and takes it again.                                                 *)
LEMMA ReacquireTakes ==
  ASSUME LInv, TypeOK', NEW t \in Threads, Reacquire(t)
  PROVE  Exclusive'
<1>1. /\ InCall(t) /\ at[t] = "awake" /\ test' = test
      /\ Op(t).op \in {"semDown", "while", "condWait"}
  BY DEF LInv, Reacquire, TypeOK, OpsAt
<1>2. PICK l \in Monitors : l = Op(t).m
  BY <1>1, OpIsOp DEF LInv, MonitorCalls
<1>3. lockvar[l] = 0 /\ lockvar' = [lockvar EXCEPT ![l] = 1]
  BY <1>2 DEF Reacquire, LockAgain, AcquireLock
<1>4. \A m \in Monitors \ {l} :
        t \in Holders(m) <=> Inside(Program[t], ip[t], m)
  BY <1>1, <1>2 DEF Holders, On
<1>5. Op(t).op # "semDown" => Inside(Program[t], ip[t], l)
  BY <1>1, <1>2, UsesWhatItHolds DEF LInv
<1>6. /\ Others(t) /\ t \in Holders(l)'
      /\ \A m \in Monitors \ {l} :
           t \in Holders(m)' <=> Inside(Program[t], ip[t], m)
  <2>1. CASE Op(t).op = "condWait"
    <3>1. Resume(t, {})
      BY <2>1 DEF Reacquire, Return
    <3>2. Others(t) /\ Returns(t)
      BY <3>1, ResumeEffect DEF LInv
    <3> QED
      BY <1>1, <1>5, <2>1, <3>2, ReturnsHold, InsideNext DEF LInv
  <2>2. CASE Op(t).op \in {"semDown", "while"}
    <3>1. PICK place \in {"release", "client"} :
            Goto(t, place) /\ (place = "release" <=> Op(t).op = "semDown")
      BY <2>2 DEF Reacquire
    <3>2. Others(t) /\ GoesOn(t, place)
      BY <3>1, GotoEffect DEF LInv
    <3>3. Op(t).op \in MonitorCalls \cup {"while"}
      BY <1>1 DEF MonitorCalls
    <3>4. \A m \in Monitors : t \in Holders(m)' <=>
            \/ place = "release" /\ l = m
            \/ Inside(Program[t], ip[t], m)
      BY <1>2, <3>1, <3>2, <3>3, <1>1, GoesOnHold DEF LInv
    <3> QED
      BY <1>5, <3>1, <3>2, <3>4
  <2> QED
    BY <1>1, <2>1, <2>2
<1> QED
  BY <1>1, <1>3, <1>4, <1>6, Takes

LEMMA SemTakes ==
  ASSUME LInv, TypeOK', NEW t \in Threads, SemDown(t) \/ SemUp(t)
  PROVE  Exclusive' /\ ~Inside(Program[t], ip[t], Op(t).m)
<1>1. /\ InCall(t) /\ at[t] = "client" /\ test' = test
      /\ Op(t).op \in {"semDown", "semUp"}
  BY DEF SemDown, SemUp, Calls, InCall
<1>2. PICK l \in Monitors : l = Op(t).m
  BY <1>1, OpIsOp DEF LInv, MonitorCalls
<1>3. lockvar[l] = 0 /\ lockvar' = [lockvar EXCEPT ![l] = 1]
  BY <1>2 DEF SemDown, SemUp, AcquireLock
<1>4. PICK place \in {"wait", "release", "signal"} : Goto(t, place)
  BY DEF SemDown, SemUp
<1>5. Others(t) /\ GoesOn(t, place)
  BY <1>4, GotoEffect DEF LInv
<1>6. \A m \in Monitors :
        t \in Holders(m)' <=> m = l \/ Inside(Program[t], ip[t], m)
  BY <1>1, <1>2, <1>5, GoesOnHold DEF LInv, MonitorCalls
<1>7. ~Inside(Program[t], ip[t], l)
  BY <1>1, <1>3, AtClient DEF LInv, Exclusive
<1> QED
  BY <1>1, <1>2, <1>3, <1>5, <1>6, <1>7, AtClient, Takes

LEMMA SemReturnGives ==
  ASSUME LInv, TypeOK', NEW t \in Threads, SemReturn(t)
  PROVE  Exclusive'
<1>1. InCall(t) /\ Others(t) /\ Returns(t) /\ at[t] = "release" /\ test' = test
  BY CallEffect DEF LInv, SemReturn
<1>2. Op(t).op \in {"semUp", "semDown"}
  BY <1>1 DEF LInv, TypeOK, OpsAt
<1>3. PICK l \in Monitors : l = Op(t).m
  BY <1>1, <1>2, OpIsOp DEF LInv, MonitorCalls
<1>4. lockvar' = [lockvar EXCEPT ![l] = 0]
  BY <1>3 DEF SemReturn, ReleaseLock
<1>5. ~Inside(Program[t], ip[t], l)
  BY <1>1, <1>2, <1>3 DEF LInv, NotNested
<1>6. \A m \in Monitors :
        t \in Holders(m) <=> m = l \/ Inside(Program[t], ip[t], m)
  BY <1>1, <1>2, <1>3 DEF Holders, On, MonitorCalls
<1>7. \A m \in Monitors : t \in Holders(m)' <=> Inside(Program[t], ip[t], m)
  BY <1>1, <1>2, ReturnsHold, InsideNext DEF LInv
<1> QED
  BY <1>1, <1>4, <1>5, <1>6, <1>7, Gives

LEMMA NotNestedStep ==
  ASSUME LInv, TypeOK', NEW t \in Threads, Step(t)
  PROVE  NotNested'
<1>1. test' = test /\ InCall(t) /\ Others(t)
  BY StepEffect DEF LInv
<1>2. Program' = Program
  BY <1>1 DEF Program
<1> SUFFICES ASSUME NEW u \in Threads, InCall(u)', at'[u] # "client",
                    Op(u)'.op \in {"semDown", "semUp"}
             PROVE  ~Inside(Program[u], ip'[u], Op(u)'.m)
  BY <1>2 DEF NotNested
<1>3. CASE u # t
  <2>1. ip'[u] = ip[u] /\ Op(u)' = Op(u)
    BY <1>1, <1>2, <1>3 DEF Others, Op
  <2>2. InCall(u) /\ at[u] # "client"
    BY <1>1, <1>3 DEF Others, InCall
  <2> QED
    BY <2>1, <2>2 DEF LInv, NotNested
<1>4. CASE u = t
  <2>1. PICK place \in Places : GoesOn(t, place)
    BY <1>4, StepEffect DEF LInv, Returns, NextPlace, InCall
  <2>2. ip'[t] = ip[t] /\ Op(t)' = Op(t)
    BY <1>2, <2>1 DEF GoesOn, Op
  <2>3. CASE at[t] # "client"
    BY <1>1, <1>4, <2>2, <2>3 DEF LInv, NotNested
  <2>4. CASE at[t] = "client"
    <3>1. SemDown(t) \/ SemUp(t)
      <4>1. ~Returns(t)
        BY <1>4, <2>1, <2>2 DEF LInv, Returns, TypeOK
      <4>2. ~CondWait(t)
        BY <1>4, <2>2, <2>4 DEF CondWait, Calls
      <4> QED
        BY <2>4, <4>1, <4>2, CallEffect, ThreadCreateEffect
           DEF LInv, Step, Library, SleepChan, Reacquire, Signal
    <3> QED
      BY <1>4, <2>2, <3>1, SemTakes
  <2> QED
    BY <2>3, <2>4
<1> QED
  BY <1>3, <1>4

LEMMA LInvStep == LInv /\ [Next]_vars => LInv'
<1> SUFFICES ASSUME LInv, [Next]_vars PROVE LInv'
  OBVIOUS
<1>1. CASE UNCHANGED vars
  <2>1. Program' = Program
    BY <1>1 DEF vars, Program
  <2>2. TypeOK' /\ Births'
    BY <1>1, <2>1 DEF vars, LInv, TypeOK, Births, InCall, Op
  <2>3. Exclusive' /\ NotNested'
    BY <1>1, <2>1 DEF vars, LInv, Exclusive, NotNested, Holders, On, InCall, Op
  <2> QED
    BY <2>2, <2>3 DEF LInv
<1>2. ASSUME NEW t \in Threads, Step(t) PROVE LInv'
  <2>1. TypeOK' /\ Births'
    BY <1>2, TypeStep, BirthsStep DEF LInv
  <2>2. Exclusive'
    BY <1>2, <2>1, CallKeeps, GoingOnKeeps, LockTakes, UnlockGives,
       CondWaitGives, ReacquireTakes, SemTakes, SemReturnGives
       DEF Step, Library
  <2> QED
    BY <1>2, <2>1, <2>2, NotNestedStep DEF LInv
<1> QED
  BY <1>1, <1>2 DEF Next

LEMMA LInvInit == Init => LInv
<1> SUFFICES ASSUME Init PROVE LInv
  OBVIOUS
<1>1. TypeOK /\ Births
  BY TypeInit
<1>2. \A t \in Threads : at[t] \in {"client", "unborn"} /\ ip[t] = 1
  BY DEF Init
<1>3. \A m : Holders(m) = {}
  BY <1>2 DEF Holders, On, InCall, Inside
<1>4. \A m \in Monitors : lockvar[m] = 0
  BY DEF Init
<1> QED
  BY <1>1, <1>2, <1>3, <1>4 DEF LInv, Exclusive, NotNested, InCall

LEMMA LInvAlways == Spec => []LInv
<1>1. LInv /\ [Next]_vars => LInv'
  BY LInvStep
<1> QED
  BY <1>1, LInvInit, PTL DEF Spec

(* Each lock of ulib.c has at most one holder, and is taken exactly when   *)
(* it has one, through acquireLock, condWait, semUp and semDown, whoever   *)
(* signals or broadcasts when.                                             *)
THEOREM LocksHaveOneHolder == Spec => []Invariants
<1>1. LInv => Invariants
  <2> SUFFICES ASSUME LInv PROVE LocksExclude
    BY DEF LInv, Invariants
  <2> SUFFICES ASSUME NEW m \in Monitors
               PROVE  Cardinality(Holders(m)) = lockvar[m]
    BY DEF LocksExclude
  <2>1. CASE lockvar[m] = 0
    BY <2>1, FS_EmptySet DEF LInv, Exclusive
  <2>2. CASE lockvar[m] = 1
    BY <2>2, FS_Singleton DEF LInv, Exclusive
  <2> QED
    BY <2>1, <2>2 DEF LInv, TypeOK
<1> QED
  BY <1>1, LInvAlways, PTL

-----------------------------------------------------------------------------
(* The semaphores *)

UpPlaces    == {"signal", "release"}
DownPlaces  == {"wait", "sleepChan", "asleep", "awake", "release"}
WokenPlaces == {"awake", "release"}

(* The calls of semUp and of semDown that have changed the counter, the    *)
(* calls of semDown that sleep no more, and the threads about to signal.   *)
UpsDone(m)    == Past(Sites("semUp", m), UpPlaces)
DownsBegun(m) == Past(Sites("semDown", m), DownPlaces)
DownsWoken(m) == Past(Sites("semDown", m), WokenPlaces)
Signalling(m) == {t \in Threads : On(t, "signal", m)}

InitDone(m) == \A s \in Sites("semInit", m) : ip[s[1]] > s[2]

(* The counter says how many units there are after the calls that changed  *)
(* it, and the threads let through, with the signals on their way, are     *)
(* covered by units.                                                       *)
Units(m) ==
  /\ InitDone(m) =>
       ctr[m] = Initial(m) + Cardinality(UpsDone(m)) - Cardinality(DownsBegun(m))
  /\ ~InitDone(m) => UpsDone(m) = {} /\ DownsBegun(m) = {}
  /\ Cardinality(DownsWoken(m)) + Cardinality(Signalling(m))
       <= Initial(m) + Cardinality(UpsDone(m))

(* Only main creates the first thread.                                     *)
FirstCreator ==
  \A u \in Threads \ {Main} : at[u] # "unborn" =>
    \E i \in DOMAIN Program[Main] :
      i < ip[Main] /\ Program[Main][i].op = "thread_create"

SInv == LInv /\ FirstCreator /\ \A m \in Monitors : Units(m)

LEMMA SitesDef ==
  ASSUME NEW op, NEW m
  PROVE  /\ \A s \in Sites(op, m) : /\ s = <<s[1], s[2]>>
                                    /\ s[1] \in Threads /\ s[2] \in DOMAIN Program[s[1]]
                                    /\ Program[s[1]][s[2]].op = op
                                    /\ Program[s[1]][s[2]].m = m
         /\ \A t \in Threads : \A i \in DOMAIN Program[t] :
              Program[t][i].op = op /\ Program[t][i].m = m => <<t, i>> \in Sites(op, m)
  BY DEF Sites

LEMMA SitesFinite ==
  ASSUME TypeOK, NEW op, NEW m PROVE IsFiniteSet(Sites(op, m))
<1> DEFINE domains == [t \in Threads |-> DOMAIN Program[t]]
           all == UNION {domains[t] : t \in Threads}
<1>1. ASSUME NEW t \in Threads PROVE IsFiniteSet(DOMAIN Program[t])
  <2>1. Program[t] \in Seq(Ops)
    BY UlibAssumption DEF UlibAssumption, Program, TypeOK
  <2>2. DOMAIN Program[t] = 1..Len(Program[t]) /\ Len(Program[t]) \in Nat
    BY <2>1
  <2> QED
    BY <2>2, FS_Interval
<1>2. domains \in Surjection(Threads, {domains[t] : t \in Threads})
  BY DEF Surjection
<1>3. IsFiniteSet({domains[t] : t \in Threads})
  BY <1>2, UlibAssumption, FS_Surjection DEF UlibAssumption
<1>4. IsFiniteSet(all)
  <2>1. \A d \in {domains[t] : t \in Threads} : IsFiniteSet(d)
    BY <1>1
  <2> HIDE DEF domains
  <2> QED
    BY <1>3, <2>1, FS_UNION
<1>5. IsFiniteSet(Threads \X all)
  <2> HIDE DEF all
  <2> QED
    BY <1>4, UlibAssumption, FS_Product DEF UlibAssumption
<1>6. Sites(op, m) \subseteq Threads \X all
  BY DEF Sites
<1> QED
  BY <1>5, <1>6, FS_Subset

LEMMA PastFinite ==
  ASSUME TypeOK, NEW op, NEW m, NEW places
  PROVE  /\ IsFiniteSet(Past(Sites(op, m), places))
         /\ Cardinality(Past(Sites(op, m), places)) \in Nat
<1>1. Past(Sites(op, m), places) \subseteq Sites(op, m)
  BY DEF Past
<1> QED
  BY <1>1, SitesFinite, FS_Subset, FS_CardinalityType

LEMMA SignallingFinite ==
  ASSUME NEW m
  PROVE  IsFiniteSet(Signalling(m)) /\ Cardinality(Signalling(m)) \in Nat
<1>1. Signalling(m) \subseteq Threads
  BY DEF Signalling
<1> QED
  BY <1>1, UlibAssumption, FS_Subset, FS_CardinalityType DEF UlibAssumption

(* A semaphore's initial value is where its semInit says.                  *)
LEMMA InitialValue ==
  ASSUME TypeOK, NEW m \in Monitors
  PROVE  /\ Initial(m) \in Nat
         /\ \A s \in Sites("semInit", m) :
              s[1] = Main /\ Initial(m) = Program[s[1]][s[2]].v
         /\ \A s, r \in Sites("semInit", m) : s = r
<1>1. ASSUME NEW s \in Sites("semInit", m), NEW r \in Sites("semInit", m)
      PROVE  s[1] = Main /\ s = r
  <2>1. /\ s = <<s[1], s[2]>> /\ r = <<r[1], r[2]>>
        /\ s[1] \in Threads /\ s[2] \in DOMAIN Program[s[1]]
        /\ r[1] \in Threads /\ r[2] \in DOMAIN Program[r[1]]
        /\ Program[s[1]][s[2]].op = "semInit" /\ Program[s[1]][s[2]].m = m
        /\ Program[r[1]][r[2]].op = "semInit" /\ Program[r[1]][r[2]].m = m
    BY SitesDef
  <2>2. s[1] = Main /\ r[2] = s[2]
    BY <2>1, SemaphoreAssumption DEF SemaphoreAssumption, Program, TypeOK
  <2>3. r[1] = Main
    BY <2>1, SemaphoreAssumption DEF SemaphoreAssumption, Program, TypeOK
  <2> QED
    BY <2>1, <2>2, <2>3
<1>2. ASSUME NEW s \in Sites("semInit", m) PROVE Program[s[1]][s[2]].v \in Nat
  <2>1. /\ s[1] \in Threads /\ s[2] \in DOMAIN Program[s[1]]
        /\ Program[s[1]][s[2]].op = "semInit"
    BY SitesDef
  <2>2. Program[s[1]] \in Seq(Ops)
    BY <2>1, UlibAssumption DEF UlibAssumption, Program, TypeOK
  <2>3. Program[s[1]][s[2]] \in Ops
    BY <2>1, <2>2
  <2>4. Program[s[1]][s[2]] \in [op : {"semInit", "while"}, m : Monitors, v : Values]
    BY <2>1, <2>3 DEF Ops, MonitorCalls
  <2> QED
    BY <2>4, UlibAssumption DEF UlibAssumption
<1>3. CASE Sites("semInit", m) = {}
  BY <1>3 DEF Initial
<1>4. CASE Sites("semInit", m) # {}
  <2>1. PICK s \in Sites("semInit", m) : TRUE
    BY <1>4
  <2>2. (CHOOSE r \in Sites("semInit", m) : TRUE) = s
    BY <1>1, <2>1
  <2>3. Initial(m) = Program[s[1]][s[2]].v
    BY <1>4, <2>2 DEF Initial
  <2> QED
    BY <1>1, <1>2, <2>1, <2>3
<1> QED
  BY <1>3, <1>4

-----------------------------------------------------------------------------
(* The call s has come to one of these places, or has returned.            *)
CameTo(s, places) ==
  \/ ip[s[1]] > s[2]
  \/ ip[s[1]] = s[2] /\ at[s[1]] \in places

LEMMA PastDef ==
  ASSUME test' = test, NEW op, NEW m, NEW places
  PROVE  /\ Past(Sites(op, m), places) = {s \in Sites(op, m) : CameTo(s, places)}
         /\ Past(Sites(op, m), places)' = {s \in Sites(op, m) : CameTo(s, places)'}
<1>1. Sites(op, m)' = Sites(op, m)
  BY DEF Sites, Program
<1> QED
  BY <1>1 DEF Past, CameTo

(* A step of t, and places that only the call of t comes to by it.         *)
Moves(t) ==
  /\ InCall(t) /\ Others(t) /\ test' = test
  /\ Returns(t) \/ \E place : GoesOn(t, place)

Watched(t, op, m, places) ==
  /\ "client" \notin places /\ "unborn" \notin places /\ "exited" \notin places
  /\ \A u \in Threads \ {t} :
       at[u] = "asleep" /\ at'[u] = "awake" /\ Op(u).op = op /\ Op(u).m = m =>
         ("asleep" \in places <=> "awake" \in places)

LEMMA CallsCome ==
  ASSUME TypeOK, Births, NEW t \in Threads, Moves(t),
         NEW op, NEW m, NEW places, Watched(t, op, m, places),
         NEW i, i = ip[t]
  PROVE  /\ \A s \in Sites(op, m) :
              s # <<t, i>> => (CameTo(s, places)' <=> CameTo(s, places))
         /\ <<t, i>> \in Sites(op, m) <=> Op(t).op = op /\ Op(t).m = m
         /\ CameTo(<<t, i>>, places) <=> at[t] \in places
         /\ CameTo(<<t, i>>, places)' <=> Returns(t) \/ at'[t] \in places
<1> USE DEF Moves, Watched
<1> DEFINE S == Sites(op, m)
           Here(s) == \/ ip[s[1]] > s[2]
                      \/ ip[s[1]] = s[2] /\ at[s[1]] \in places
           There(s) == \/ ip'[s[1]] > s[2]
                       \/ ip'[s[1]] = s[2] /\ at'[s[1]] \in places
<1>1. \A s : CameTo(s, places) <=> Here(s)
  BY DEF CameTo
<1>2. \A s : CameTo(s, places)' <=> There(s)
  BY DEF CameTo
<1>3. \A s \in S : /\ s = <<s[1], s[2]>> /\ s[1] \in Threads /\ s[2] \in Nat
                   /\ s[2] \in DOMAIN Program[s[1]]
                   /\ Program[s[1]][s[2]].op = op /\ Program[s[1]][s[2]].m = m
  <2>1. \A u \in Threads : \A k \in DOMAIN Program[u] : k \in Nat
    BY UlibAssumption DEF UlibAssumption, Program, TypeOK
  <2> QED
    BY <2>1, SitesDef
<1>4. ASSUME NEW s \in S, s[1] # t PROVE Here(s) <=> There(s)
  <2>1. PICK u \in Threads \ {t} : u = s[1]
    BY <1>3, <1>4
  <2>2. ip'[u] = ip[u] /\ ip[u] \in Nat /\ s[2] \in Nat
    BY <1>3 DEF Others, TypeOK
  <2>3. CASE at'[u] = at[u]
    BY <2>1, <2>2, <2>3
  <2>4. CASE at[u] = "asleep" /\ at'[u] = "awake"
    <3>1. ip[u] = s[2] => Op(u).op = op /\ Op(u).m = m
      BY <1>3, <2>1 DEF Op
    <3> QED
      BY <2>1, <2>2, <2>4, <3>1
  <2>5. CASE at[u] = "unborn" /\ at'[u] = "client"
    BY <2>1, <2>2, <2>5
  <2> QED
    BY <2>3, <2>4, <2>5 DEF Others
<1>5. <<t, i>> \in S <=> Op(t).op = op /\ Op(t).m = m
  <2>1. ip[t] \in DOMAIN Program[t]
    BY DEF TypeOK
  <2>2. Op(t).op = op /\ Op(t).m = m => <<t, i>> \in S
    BY <2>1, SitesDef DEF Op
  <2>3. <<t, i>> \in S => Op(t).op = op /\ Op(t).m = m
    BY <1>3 DEF Op
  <2> QED
    BY <2>2, <2>3
<1>6. ip[t] \in Nat
  BY DEF TypeOK
<1>7. Returns(t) => ip'[t] = ip[t] + 1 /\ at'[t] \notin places
  BY DEF Returns, NextPlace
<1>8. ~Returns(t) => ip'[t] = ip[t]
  BY DEF GoesOn
<1>9. ASSUME NEW s \in S, s[1] = t, s # <<t, i>> PROVE Here(s) <=> There(s)
  <2>1. s[2] # ip[t] /\ s[2] \in Nat
    BY <1>3, <1>9
  <2> QED
    BY <1>6, <1>7, <1>8, <1>9, <2>1
<1>10. /\ Here(<<t, i>>) <=> at[t] \in places
       /\ There(<<t, i>>) <=> Returns(t) \/ at'[t] \in places
  BY <1>6, <1>7, <1>8
<1>11. \A s \in S : s # <<t, i>> => (Here(s) <=> There(s))
  BY <1>4, <1>9
<1> QED
  BY <1>1, <1>2, <1>5, <1>10, <1>11

LEMMA PastSame ==
  ASSUME TypeOK, Births, NEW t \in Threads, Moves(t),
         NEW op, NEW m, NEW places, Watched(t, op, m, places),
         \/ Op(t).op # op
         \/ Op(t).m # m
         \/ at[t] \in places /\ (Returns(t) \/ at'[t] \in places)
         \/ at[t] \notin places /\ ~Returns(t) /\ at'[t] \notin places
  PROVE  Past(Sites(op, m), places)' = Past(Sites(op, m), places)
<1>1. PICK i : i = ip[t]
  OBVIOUS
<1>2. /\ \A s \in Sites(op, m) :
           s # <<t, i>> => (CameTo(s, places)' <=> CameTo(s, places))
      /\ <<t, i>> \in Sites(op, m) <=> Op(t).op = op /\ Op(t).m = m
      /\ CameTo(<<t, i>>, places) <=> at[t] \in places
      /\ CameTo(<<t, i>>, places)' <=> Returns(t) \/ at'[t] \in places
  BY <1>1, CallsCome
<1>3. \A s \in Sites(op, m) : CameTo(s, places)' <=> CameTo(s, places)
  BY <1>2
<1>4. /\ Past(Sites(op, m), places) = {s \in Sites(op, m) : CameTo(s, places)}
      /\ Past(Sites(op, m), places)' = {s \in Sites(op, m) : CameTo(s, places)'}
  BY PastDef DEF Moves
<1> QED
  BY <1>3, <1>4

LEMMA PastGrows ==
  ASSUME TypeOK, Births, NEW t \in Threads, Moves(t),
         NEW op, NEW m, NEW places, Watched(t, op, m, places),
         Op(t).op = op, Op(t).m = m, at[t] \notin places,
         Returns(t) \/ at'[t] \in places, NEW i, i = ip[t]
  PROVE  /\ Past(Sites(op, m), places)' =
              Past(Sites(op, m), places) \cup {<<t, i>>}
         /\ <<t, i>> \notin Past(Sites(op, m), places)
<1>1. /\ \A s \in Sites(op, m) :
           s # <<t, i>> => (CameTo(s, places)' <=> CameTo(s, places))
      /\ <<t, i>> \in Sites(op, m) <=> Op(t).op = op /\ Op(t).m = m
      /\ CameTo(<<t, i>>, places) <=> at[t] \in places
      /\ CameTo(<<t, i>>, places)' <=> Returns(t) \/ at'[t] \in places
  BY CallsCome
<1>2. /\ Past(Sites(op, m), places) = {s \in Sites(op, m) : CameTo(s, places)}
      /\ Past(Sites(op, m), places)' = {s \in Sites(op, m) : CameTo(s, places)'}
  BY PastDef DEF Moves
<1> QED
  BY <1>1, <1>2

LEMMA FirstCreatorStep ==
  ASSUME SInv, NEW t \in Threads, Step(t)
  PROVE  FirstCreator'
<1>1. test' = test /\ InCall(t) /\ Others(t)
  BY StepEffect DEF SInv, LInv
<1>2. Program' = Program
  BY <1>1 DEF Program
<1>3. Main \in Threads /\ ip[Main] \in Nat /\ ip'[Main] \in {ip[Main], ip[Main] + 1}
  BY <1>1, StepEffect, UlibAssumption
     DEF Others, Returns, GoesOn, SInv, LInv, TypeOK, UlibAssumption
<1>4. \A i \in DOMAIN Program[Main] : i \in Nat
  BY <1>3, UlibAssumption DEF UlibAssumption, Program, SInv, LInv, TypeOK
<1> SUFFICES ASSUME NEW u \in Threads \ {Main}, at'[u] # "unborn"
             PROVE  \E i \in DOMAIN Program[Main] :
                      i < ip'[Main] /\ Program[Main][i].op = "thread_create"
  BY <1>2 DEF FirstCreator
<1>5. CASE at[u] # "unborn"
  BY <1>3, <1>4, <1>5 DEF SInv, FirstCreator
<1>6. CASE at[u] = "unborn"
  <2>1. ThreadCreate(t)
    BY <1>1, <1>6 DEF Others, InCall
  <2>2. CASE t # Main
    <3>1. at[t] # "unborn"
      BY <1>1 DEF InCall
    <3> QED
      BY <1>3, <1>4, <2>2, <3>1 DEF SInv, FirstCreator
  <2>3. CASE t = Main
    <3>1. Returns(t)
      BY <2>1, ThreadCreateEffect DEF SInv, LInv
    <3>2. ip[t] \in DOMAIN Program[t] /\ Program[t][ip[t]].op = "thread_create"
      BY <1>1, <2>1 DEF ThreadCreate, Calls, Op, SInv, LInv, TypeOK
    <3> QED
      BY <1>3, <2>3, <3>1, <3>2 DEF Returns
  <2> QED
    BY <2>2, <2>3
<1> QED
  BY <1>5, <1>6

(* A semaphore is initiated before it is used.                             *)
LEMMA InitFirst ==
  ASSUME SInv, NEW t \in Threads, InCall(t), NEW m \in Monitors,
         Op(t).op \in {"semUp", "semDown"}, Op(t).m = m
  PROVE  InitDone(m)
<1> SUFFICES ASSUME ~InitDone(m) PROVE FALSE
  OBVIOUS
<1>1. Main \in Threads
  BY UlibAssumption DEF UlibAssumption
<1>2. PICK s \in Sites("semInit", m) : ~(ip[s[1]] > s[2])
  BY DEF InitDone
<1>3. PICK i \in DOMAIN Program[Main] :
        i = s[2] /\ Program[Main][i].op = "semInit" /\ Program[Main][i].m = m
  BY <1>2, SitesDef, InitialValue DEF SInv, LInv
<1>4. ~(ip[Main] > i)
  BY <1>2, <1>3, InitialValue DEF SInv, LInv
<1>5. \A j \in DOMAIN Program[Main] : j \in Nat
  BY <1>1, UlibAssumption DEF UlibAssumption, Program, SInv, LInv, TypeOK
<1>6. ip[Main] \in Nat
  BY <1>1 DEF SInv, LInv, TypeOK
<1>7. test \in DOMAIN Programs
  BY DEF SInv, LInv, TypeOK
<1>8. CASE t = Main
  <2>1. ip[t] \in DOMAIN Program[t]
    BY DEF SInv, LInv, TypeOK
  <2>2. i < ip[Main]
    BY <1>1, <1>3, <1>7, <1>8, <2>1, SemaphoreAssumption
       DEF SemaphoreAssumption, Program, Op
  <2> QED
    BY <1>4, <2>2
<1>9. CASE t # Main
  <2>1. at[t] # "unborn"
    BY DEF InCall
  <2>2. PICK j \in DOMAIN Program[Main] :
          j < ip[Main] /\ Program[Main][j].op = "thread_create"
    BY <1>9, <2>1 DEF SInv, FirstCreator
  <2>3. ~(j < i)
    BY <1>1, <1>3, <1>7, <2>2, SemaphoreAssumption DEF SemaphoreAssumption, Program
  <2> QED
    BY <1>3, <1>4, <1>5, <1>6, <2>2, <2>3
<1> QED
  BY <1>8, <1>9

LEMMA InitDoneStep ==
  ASSUME TypeOK, NEW t \in Threads, InCall(t), Others(t), test' = test,
         Returns(t) \/ \E place : GoesOn(t, place),
         NEW m \in Monitors, Op(t).op # "semInit" \/ Op(t).m # m
  PROVE  InitDone(m)' <=> InitDone(m)
<1>1. Sites("semInit", m)' = Sites("semInit", m)
  BY DEF Sites, Program
<1>2. ASSUME NEW s \in Sites("semInit", m)
      PROVE  ip'[s[1]] > s[2] <=> ip[s[1]] > s[2]
  <2>1. /\ s[1] \in Threads /\ s[2] \in DOMAIN Program[s[1]]
        /\ Program[s[1]][s[2]].op = "semInit" /\ Program[s[1]][s[2]].m = m
    BY SitesDef
  <2>2. s[2] \in Nat
    BY <2>1, UlibAssumption DEF UlibAssumption, Program, TypeOK
  <2>3. CASE s[1] # t
    BY <2>1, <2>3 DEF Others
  <2>4. CASE s[1] = t
    <3>1. s[2] # ip[t] /\ ip[t] \in Nat
      BY <2>1, <2>4 DEF Op, TypeOK
    <3> QED
      BY <2>2, <2>4, <3>1 DEF Returns, GoesOn
  <2> QED
    BY <2>3, <2>4
<1> QED
  BY <1>1, <1>2 DEF InitDone

LEMMA SignallingStep ==
  ASSUME TypeOK, NEW t \in Threads, InCall(t), Others(t), test' = test, NEW m
  PROVE  \A u \in Threads \ {t} : u \in Signalling(m)' <=> u \in Signalling(m)
<1> SUFFICES ASSUME NEW u \in Threads \ {t}
             PROVE  On(u, "signal", m)' <=> On(u, "signal", m)
  BY DEF Signalling
<1>1. ip'[u] = ip[u] /\ Op(u)' = Op(u)
  BY DEF Others, Op, Program
<1>2. CASE at'[u] = at[u]
  BY <1>1, <1>2 DEF On, InCall
<1>3. CASE at[u] \in {"asleep", "unborn"} /\ at'[u] \in {"awake", "client"}
  BY <1>3 DEF On
<1> QED
  BY <1>2, <1>3 DEF Others

(* A step of t that changes neither what the counter of m counts nor it.   *)
LEMMA Unchanged ==
  ASSUME SInv, NEW m \in Monitors, test' = test, InitDone(m)' <=> InitDone(m),
         UpsDone(m)' = UpsDone(m), DownsBegun(m)' = DownsBegun(m),
         DownsWoken(m)' = DownsWoken(m), Signalling(m)' = Signalling(m),
         ctr'[m] = ctr[m]
  PROVE  Units(m)'
<1>1. Initial(m)' = Initial(m)
  BY DEF Initial, Sites, Program
<1> QED
  BY <1>1 DEF SInv, Units

(* The call of t is no call on the semaphore m, or stays at places of the  *)
(* same kind, and nobody in a semDown on m is woken.                       *)
Quiet(t, m) ==
  /\ \A u \in Threads \ {t} :
       ~(at[u] = "asleep" /\ at'[u] = "awake" /\ Op(u).op = "semDown" /\ Op(u).m = m)
  /\ at[t] # "signal" /\ at'[t] # "signal"
  /\ \/ Op(t).op \notin {"semUp", "semDown"} \/ Op(t).m # m
     \/ at[t] = "release" /\ Returns(t)
     \/ /\ Op(t).op = "semDown" /\ ~Returns(t)
        /\ <<at[t], at'[t]>> \in {<<"wait", "sleepChan">>, <<"sleepChan", "asleep">>,
                                  <<"awake", "release">>}

LEMMA QuietSets ==
  ASSUME SInv, NEW t \in Threads, Moves(t), NEW m \in Monitors, Quiet(t, m)
  PROVE  /\ UpsDone(m)' = UpsDone(m) /\ DownsBegun(m)' = DownsBegun(m)
         /\ DownsWoken(m)' = DownsWoken(m) /\ Signalling(m)' = Signalling(m)
<1>1. TypeOK /\ Births
  BY DEF SInv, LInv
<1>3. UpsDone(m)' = UpsDone(m)
  <2>1. \/ Op(t).op # "semUp"
        \/ Op(t).m # m
        \/ at[t] \in UpPlaces /\ (Returns(t) \/ at'[t] \in UpPlaces)
    BY DEF Quiet, UpPlaces
  <2>2. Watched(t, "semUp", m, UpPlaces)
    BY DEF Watched, Quiet, UpPlaces
  <2>4. Past(Sites("semUp", m), UpPlaces)' = Past(Sites("semUp", m), UpPlaces)
    BY <1>1, <2>1, <2>2, PastSame
  <2> QED
    BY <2>4 DEF UpsDone
<1>4. DownsBegun(m)' = DownsBegun(m)
  <2>1. \/ Op(t).op # "semDown"
        \/ Op(t).m # m
        \/ at[t] \in DownPlaces /\ (Returns(t) \/ at'[t] \in DownPlaces)
    BY DEF Quiet, DownPlaces
  <2>2. Watched(t, "semDown", m, DownPlaces)
    BY DEF Watched, Quiet, DownPlaces
  <2>4. Past(Sites("semDown", m), DownPlaces)' = Past(Sites("semDown", m), DownPlaces)
    BY <1>1, <2>1, <2>2, PastSame
  <2> QED
    BY <2>4 DEF DownsBegun
<1>5. DownsWoken(m)' = DownsWoken(m)
  <2>1. \/ Op(t).op # "semDown"
        \/ Op(t).m # m
        \/ at[t] \in WokenPlaces /\ (Returns(t) \/ at'[t] \in WokenPlaces)
        \/ at[t] \notin WokenPlaces /\ ~Returns(t) /\ at'[t] \notin WokenPlaces
    BY DEF Quiet, WokenPlaces
  <2>2. Watched(t, "semDown", m, WokenPlaces)
    BY DEF Watched, Quiet, WokenPlaces
  <2>4. Past(Sites("semDown", m), WokenPlaces)' = Past(Sites("semDown", m), WokenPlaces)
    BY <1>1, <2>1, <2>2, PastSame
  <2> QED
    BY <2>4 DEF DownsWoken
<1>6. Signalling(m)' = Signalling(m)
  <2>1. t \notin Signalling(m) /\ t \notin Signalling(m)'
    BY DEF Signalling, On, Quiet
  <2>2. Signalling(m) \subseteq Threads /\ Signalling(m)' \subseteq Threads
    BY DEF Signalling
  <2> QED
    BY <1>1, <2>1, <2>2, SignallingStep DEF Moves
<1> QED
  BY <1>3, <1>4, <1>5, <1>6

LEMMA QuietUnits ==
  ASSUME SInv, NEW t \in Threads, Moves(t), NEW m \in Monitors, Quiet(t, m),
         ctr'[m] = ctr[m], Op(t).op # "semInit" \/ Op(t).m # m
  PROVE  Units(m)'
<1>1. (InitDone(m)' <=> InitDone(m)) /\ test' = test
  BY InitDoneStep DEF Moves, SInv, LInv
<1> QED
  BY <1>1, QuietSets, Unchanged

(* The calls and the steps inside condWait are quiet for every semaphore.  *)
LEMMA CallUnits ==
  ASSUME SInv, NEW t \in Threads, NEW m \in Monitors,
         \/ Lock(t) \/ Unlock(t) \/ WhileEnds(t) \/ Broadcast(t) \/ SetX(t)
         \/ ThreadCreate(t) \/ ThreadJoin(t)
  PROVE  Units(m)'
<1>1. TypeOK /\ Births
  BY DEF SInv, LInv
<1>2. InCall(t) /\ Others(t) /\ Returns(t)
  BY <1>1, CallEffect, ThreadCreateEffect
<1>3. /\ test' = test /\ ctr' = ctr /\ at[t] = "client"
      /\ Op(t).op \notin {"semUp", "semDown", "semInit"}
      /\ Broadcast(t) \/ Signal(t) => Op(t).op = "broadcast"
  BY DEF Lock, Unlock, WhileEnds, Broadcast, SetX, ThreadCreate, ThreadJoin, Calls,
         Signal
<1>4. ASSUME NEW u \in Threads \ {t}, at[u] = "asleep", at'[u] = "awake",
             Op(u).op = "semDown", Op(u).m = m
      PROVE  FALSE
  <2>1. Op(t).op = "broadcast" /\ On(u, "asleep", Op(t).m)
    BY <1>2, <1>3, <1>4 DEF Others
  <2>2. InCall(u) /\ Op(u).m = Op(t).m
    BY <2>1 DEF On
  <2>3. ip[u] \in DOMAIN Program[u] /\ ip[t] \in DOMAIN Program[t]
    BY <1>1, <1>2, <2>2 DEF TypeOK
  <2>4. test \in DOMAIN Programs
    BY <1>1 DEF TypeOK
  <2> QED
    BY <1>4, <2>1, <2>2, <2>3, <2>4, SemaphoreAssumption
       DEF SemaphoreAssumption, Program, Op
<1>5. at'[t] # "signal"
  BY <1>2 DEF Returns, NextPlace
<1>6. Quiet(t, m)
  BY <1>3, <1>4, <1>5 DEF Quiet
<1> QED
  BY <1>2, <1>3, <1>6, QuietUnits DEF Moves

LEMMA WaitingUnits ==
  ASSUME SInv, NEW t \in Threads, NEW m \in Monitors,
         CondWait(t) \/ SleepChan(t) \/ Reacquire(t) \/ SemReturn(t)
  PROVE  Units(m)'
<1>1. TypeOK /\ Births /\ Step(t)
  BY DEF SInv, LInv, Step, Library
<1>2. InCall(t) /\ Others(t) /\ (Returns(t) \/ \E place : GoesOn(t, place))
  BY <1>1, StepEffect
<1>3. /\ test' = test /\ ctr' = ctr /\ Op(t).op # "semInit"
      /\ ~Broadcast(t) /\ ~Signal(t)
  BY <1>1 DEF CondWait, SleepChan, Reacquire, SemReturn, TypeOK, OpsAt, Calls,
              Broadcast, Signal
<1>4. \A u \in Threads \ {t} : ~(at[u] = "asleep" /\ at'[u] = "awake")
  BY <1>2, <1>3 DEF Others
<1>5. Quiet(t, m)
  <2>1. CASE CondWait(t)
    <3>1. GoesOn(t, "sleepChan")
      BY <1>1, <2>1, GotoEffect DEF CondWait
    <3>2. \/ at[t] = "client" /\ Op(t).op \in {"condWait", "while"}
          \/ at[t] = "wait" /\ Op(t).op = "semDown"
      BY <1>1, <2>1 DEF CondWait, Calls, TypeOK, OpsAt
    <3>3. ~Returns(t)
      BY <1>1, <3>1 DEF GoesOn, Returns, TypeOK
    <3> QED
      BY <1>4, <3>1, <3>2, <3>3 DEF Quiet, GoesOn
  <2>2. CASE SleepChan(t)
    <3>1. GoesOn(t, "asleep")
      BY <1>1, <2>2, GotoEffect DEF SleepChan
    <3>2. at[t] = "sleepChan" /\ Op(t).op \in {"semDown", "while", "condWait"}
      BY <1>1, <2>2 DEF SleepChan, TypeOK, OpsAt
    <3>3. ~Returns(t)
      BY <1>1, <3>1 DEF GoesOn, Returns, TypeOK
    <3> QED
      BY <1>4, <3>1, <3>2, <3>3 DEF Quiet, GoesOn
  <2>3. CASE Reacquire(t) /\ Op(t).op = "semDown"
    <3>1. Goto(t, "release") /\ at[t] = "awake"
      BY <2>3 DEF Reacquire
    <3>2. GoesOn(t, "release")
      BY <1>1, <3>1, GotoEffect
    <3>3. ~Returns(t)
      BY <1>1, <3>2 DEF GoesOn, Returns, TypeOK
    <3> QED
      BY <1>4, <2>3, <3>1, <3>2, <3>3 DEF Quiet, GoesOn
  <2>4. CASE Reacquire(t) /\ Op(t).op # "semDown"
    <3>1. at[t] = "awake" /\ Op(t).op \in {"while", "condWait"}
      BY <1>1, <2>4 DEF Reacquire, TypeOK, OpsAt
    <3>2. CASE Op(t).op = "while"
      <4>1. Goto(t, "client")
        BY <2>4, <3>2 DEF Reacquire
      <4>2. at'[t] = "client"
        BY <1>1, <4>1, GotoEffect DEF GoesOn
      <4> QED
        BY <1>4, <3>1, <4>2 DEF Quiet
    <3>3. CASE Op(t).op = "condWait"
      <4>1. Resume(t, {})
        BY <2>4, <3>3 DEF Reacquire, Return
      <4>2. at'[t] # "signal"
        BY <1>1, <4>1, ResumeEffect DEF Returns, NextPlace
      <4> QED
        BY <1>4, <3>1, <4>2 DEF Quiet
    <3> QED
      BY <3>1, <3>2, <3>3
  <2>5. CASE SemReturn(t)
    <3>1. at[t] = "release" /\ Returns(t)
      BY <1>1, <2>5, CallEffect DEF SemReturn
    <3> QED
      BY <1>4, <3>1 DEF Quiet, Returns, NextPlace
  <2> QED
    BY <2>1, <2>2, <2>3, <2>4, <2>5
<1> QED
  BY <1>2, <1>3, <1>5, QuietUnits DEF Moves

LEMMA SemInitUnits ==
  ASSUME SInv, NEW t \in Threads, NEW m \in Monitors, SemInit(t)
  PROVE  Units(m)'
<1>1. TypeOK /\ Births
  BY DEF SInv, LInv
<1>2. /\ test' = test /\ at[t] = "client" /\ Op(t).op = "semInit"
      /\ ~Broadcast(t) /\ ~Signal(t)
  BY DEF SemInit, Calls, Broadcast, Signal
<1>3. InCall(t) /\ Others(t) /\ Returns(t) /\ Moves(t)
  BY <1>1, <1>2, CallEffect DEF Moves
<1>4. PICK l \in Monitors : l = Op(t).m
  BY <1>1, <1>2, <1>3, OpIsOp
<1>5. Quiet(t, m)
  BY <1>2, <1>3 DEF Quiet, Others, Returns, NextPlace
<1>6. ctr' = [ctr EXCEPT ![l] = Op(t).v]
  BY <1>4 DEF SemInit
<1>7. CASE m # l
  BY <1>1, <1>3, <1>4, <1>5, <1>6, <1>7, QuietUnits DEF TypeOK
<1>8. CASE m = l
  <2>1. PICK i : i = ip[t]
    OBVIOUS
  <2>2. <<t, i>> \in Sites("semInit", m) /\ i \in DOMAIN Program[t] /\ i \in Nat
    BY <1>1, <1>2, <1>3, <1>4, <1>8, <2>1, SitesDef DEF TypeOK, Op
  <2>3. Initial(m) = Op(t).v /\ \A s \in Sites("semInit", m) : s = <<t, i>>
    BY <1>1, <2>1, <2>2, InitialValue DEF Op
  <2>4. Initial(m)' = Initial(m) /\ Sites("semInit", m)' = Sites("semInit", m)
    BY <1>2 DEF Initial, Sites, Program
  <2>5. ~InitDone(m)
    BY <2>1, <2>2 DEF InitDone
  <2>6. InitDone(m)'
    BY <1>3, <2>1, <2>2, <2>3, <2>4 DEF InitDone, Returns
  <2>7. UpsDone(m) = {} /\ DownsBegun(m) = {}
    BY <2>5 DEF SInv, Units
  <2>8. /\ UpsDone(m)' = UpsDone(m) /\ DownsBegun(m)' = DownsBegun(m)
        /\ DownsWoken(m)' = DownsWoken(m) /\ Signalling(m)' = Signalling(m)
    BY <1>1, <1>2, <1>3, <1>5, QuietSets
  <2>9. ctr'[m] = Initial(m)
    BY <1>1, <1>6, <1>8, <2>3 DEF TypeOK
  <2>10. Initial(m) \in Nat
    BY <1>1, InitialValue
  <2>11. Cardinality({}) = 0
    BY FS_EmptySet
  <2>12. ctr'[m] = Initial(m)' + Cardinality(UpsDone(m)') - Cardinality(DownsBegun(m)')
    BY <2>4, <2>7, <2>8, <2>9, <2>10, <2>11
  <2>13. Cardinality(DownsWoken(m)') + Cardinality(Signalling(m)')
           <= Initial(m)' + Cardinality(UpsDone(m)')
    BY <2>4, <2>8 DEF SInv, Units
  <2> QED
    BY <2>6, <2>12, <2>13 DEF Units
<1> QED
  BY <1>7, <1>8

(* The counter of a semaphore changes under its lock: nobody is between    *)
(* his change of the counter and his signal.                               *)
LEMMA NobodySignals ==
  ASSUME LInv, NEW m \in Monitors, lockvar[m] = 0
  PROVE  Signalling(m) = {}
<1>1. Holders(m) = {}
  BY DEF LInv, Exclusive
<1>2. \A t \in Threads : On(t, "signal", m) => t \in Holders(m)
  BY HoldersDef DEF On
<1> QED
  BY <1>1, <1>2 DEF Signalling

LEMMA SemDownUnits ==
  ASSUME SInv, NEW t \in Threads, NEW m \in Monitors, SemDown(t)
  PROVE  Units(m)'
<1>1. TypeOK /\ Births
  BY DEF SInv, LInv
<1>2. /\ test' = test /\ at[t] = "client" /\ Op(t).op = "semDown" /\ InCall(t)
      /\ ~Broadcast(t) /\ ~Signal(t) /\ ~ThreadCreate(t)
  BY DEF SemDown, Calls, Broadcast, Signal, ThreadCreate, InCall
<1>3. PICK l \in Monitors : l = Op(t).m
  BY <1>1, <1>2, OpIsOp DEF MonitorCalls
<1>4. /\ lockvar[l] = 0 /\ ctr' = [ctr EXCEPT ![l] = ctr[l] - 1]
      /\ Goto(t, IF MustWait(ctr[l] - 1) THEN "wait" ELSE "release")
  BY <1>3 DEF SemDown, AcquireLock
<1>5. PICK place \in {"wait", "release"} :
        Goto(t, place) /\ (place = "release" => ctr[l] - 1 >= 0)
  <2>1. ctr[l] \in Int
    BY <1>1 DEF TypeOK
  <2> QED
    BY <1>4, <2>1 DEF MustWait
<1>6. Others(t) /\ GoesOn(t, place) /\ ~Returns(t)
  BY <1>1, <1>5, GotoEffect DEF GoesOn, Returns, TypeOK
<1>7. Moves(t)
  BY <1>2, <1>6 DEF Moves
<1>8. \A u \in Threads \ {t} : ~(at[u] = "asleep" /\ at'[u] = "awake")
  BY <1>2, <1>6 DEF Others
<1>9. CASE m # l
  <2>1. Quiet(t, m)
    BY <1>2, <1>3, <1>6, <1>8, <1>9 DEF Quiet, GoesOn
  <2>2. ctr'[m] = ctr[m]
    BY <1>1, <1>4, <1>9 DEF TypeOK
  <2> QED
    BY <1>2, <1>7, <2>1, <2>2, QuietUnits
<1>10. CASE m = l
  <2>1. PICK i : i = ip[t]
    OBVIOUS
  <2>2. InitDone(m) /\ InitDone(m)'
    BY <1>1, <1>2, <1>3, <1>7, <1>10, InitFirst, InitDoneStep DEF Moves
  <2>3. ctr[m] = Initial(m) + Cardinality(UpsDone(m)) - Cardinality(DownsBegun(m))
    BY <2>2 DEF SInv, Units
  <2>4. Initial(m)' = Initial(m) /\ Initial(m) \in Nat
    <3>1. Initial(m)' = Initial(m)
      BY <1>2 DEF Initial, Sites, Program
    <3> QED
      BY <1>1, <3>1, InitialValue
  <2>5. Signalling(m) = {} /\ Signalling(m)' = {}
    <3>1. Signalling(m) = {}
      BY <1>4, <1>10, NobodySignals DEF SInv
    <3>2. t \notin Signalling(m)'
      BY <1>6 DEF Signalling, On, GoesOn
    <3>3. Signalling(m)' \subseteq Threads
      BY DEF Signalling
    <3> QED
      BY <1>1, <1>7, <3>1, <3>2, <3>3, SignallingStep DEF Moves
  <2>6. UpsDone(m)' = UpsDone(m)
    <3>1. Watched(t, "semUp", m, UpPlaces)
      BY DEF Watched, UpPlaces
    <3>2. Op(t).op # "semUp"
      BY <1>2
    <3>3. Past(Sites("semUp", m), UpPlaces)' = Past(Sites("semUp", m), UpPlaces)
      BY <1>1, <1>7, <3>1, <3>2, PastSame
    <3> QED
      BY <3>3 DEF UpsDone
  <2>7. /\ DownsBegun(m)' = DownsBegun(m) \cup {<<t, i>>}
        /\ <<t, i>> \notin DownsBegun(m)
    <3>1. Watched(t, "semDown", m, DownPlaces)
      BY DEF Watched, DownPlaces
    <3>2. at[t] \notin DownPlaces /\ at'[t] \in DownPlaces
      BY <1>2, <1>6 DEF DownPlaces, GoesOn
    <3>3. /\ Past(Sites("semDown", m), DownPlaces)' =
               Past(Sites("semDown", m), DownPlaces) \cup {<<t, i>>}
          /\ <<t, i>> \notin Past(Sites("semDown", m), DownPlaces)
      BY <1>1, <1>2, <1>3, <1>7, <1>10, <2>1, <3>1, <3>2, PastGrows
    <3> QED
      BY <3>3 DEF DownsBegun
  <2>8. Watched(t, "semDown", m, WokenPlaces)
    BY <1>8 DEF Watched, WokenPlaces
  <2>9. IF place = "wait" THEN DownsWoken(m)' = DownsWoken(m)
        ELSE DownsWoken(m)' = DownsWoken(m) \cup {<<t, i>>}
    <3>1. CASE place = "wait"
      <4>1. at[t] \notin WokenPlaces /\ ~Returns(t) /\ at'[t] \notin WokenPlaces
        BY <1>2, <1>6, <3>1 DEF WokenPlaces, GoesOn
      <4>2. Past(Sites("semDown", m), WokenPlaces)' = Past(Sites("semDown", m), WokenPlaces)
        BY <1>1, <1>7, <2>8, <4>1, PastSame
      <4> QED
        BY <3>1, <4>2 DEF DownsWoken
    <3>2. CASE place = "release"
      <4>1. at[t] \notin WokenPlaces /\ at'[t] \in WokenPlaces
        BY <1>2, <1>6, <3>2 DEF WokenPlaces, GoesOn
      <4>2. /\ Past(Sites("semDown", m), WokenPlaces)' =
                 Past(Sites("semDown", m), WokenPlaces) \cup {<<t, i>>}
            /\ <<t, i>> \notin Past(Sites("semDown", m), WokenPlaces)
        <5>1. Op(t).op = "semDown" /\ Op(t).m = m
          BY <1>2, <1>3, <1>10
        <5> QED
          BY <1>1, <1>7, <2>1, <2>8, <4>1, <5>1, PastGrows
      <4> QED
        BY <3>2, <4>2 DEF DownsWoken
    <3> QED
      BY <3>1, <3>2
  <2>10. /\ Cardinality(DownsBegun(m)') = Cardinality(DownsBegun(m)) + 1
         /\ Cardinality(DownsBegun(m)) \in Nat /\ Cardinality(UpsDone(m)) \in Nat
    BY <1>1, <2>7, PastFinite, FS_AddElement DEF DownsBegun, UpsDone
  <2>11. ctr'[m] = ctr[m] - 1
    BY <1>1, <1>4, <1>10 DEF TypeOK
  <2>12. ctr'[m] = Initial(m)' + Cardinality(UpsDone(m)') - Cardinality(DownsBegun(m)')
    BY <2>3, <2>4, <2>6, <2>10, <2>11
  <2>13. Cardinality(DownsWoken(m)') \in Nat
    BY <1>1, <2>9, PastFinite, FS_AddElement, FS_CardinalityType DEF DownsWoken
  <2>14. Cardinality(DownsWoken(m)') <= Initial(m) + Cardinality(UpsDone(m))
    <3>1. CASE place = "wait"
      <4>1. Cardinality(Signalling(m)) = 0
        BY <2>5, FS_EmptySet
      <4>2. Cardinality(DownsWoken(m)) + 0 <= Initial(m) + Cardinality(UpsDone(m))
        BY <4>1 DEF SInv, Units
      <4> QED
        BY <2>9, <2>13, <3>1, <4>2
    <3>2. CASE place = "release"
      <4>1. Past(Sites("semDown", m), WokenPlaces) \subseteq Past(Sites("semDown", m), DownPlaces)
        BY DEF Past, WokenPlaces, DownPlaces
      <4>2. DownsWoken(m)' \subseteq DownsBegun(m)'
        BY <2>7, <2>9, <3>2, <4>1 DEF DownsWoken, DownsBegun
      <4>3. IsFiniteSet(DownsBegun(m)')
        BY <1>1, <2>7, PastFinite, FS_AddElement DEF DownsBegun
      <4>4. Cardinality(DownsWoken(m)') <= Cardinality(DownsBegun(m)')
        BY <4>2, <4>3, FS_Subset
      <4>5. ctr[m] >= 1 /\ ctr[m] \in Int
        BY <1>1, <1>5, <1>10, <3>2 DEF TypeOK
      <4> QED
        BY <2>3, <2>4, <2>10, <2>13, <4>4, <4>5
    <3> QED
      BY <3>1, <3>2
  <2>15. Cardinality(DownsWoken(m)') + Cardinality(Signalling(m)')
           <= Initial(m)' + Cardinality(UpsDone(m)')
    <3>1. Cardinality(Signalling(m)') = 0
      BY <2>5, FS_EmptySet
    <3> QED
      BY <2>4, <2>6, <2>13, <2>14, <3>1
  <2> QED
    BY <2>2, <2>12, <2>15 DEF Units
<1> QED
  BY <1>9, <1>10

LEMMA SemUpUnits ==
  ASSUME SInv, NEW t \in Threads, NEW m \in Monitors, SemUp(t)
  PROVE  Units(m)'
<1>1. TypeOK /\ Births
  BY DEF SInv, LInv
<1>2. /\ test' = test /\ at[t] = "client" /\ Op(t).op = "semUp" /\ InCall(t)
      /\ ~Broadcast(t) /\ ~Signal(t) /\ Goto(t, "signal")
  BY DEF SemUp, Calls, Broadcast, Signal, InCall
<1>3. PICK l \in Monitors : l = Op(t).m
  BY <1>1, <1>2, OpIsOp DEF MonitorCalls
<1>4. lockvar[l] = 0 /\ ctr' = [ctr EXCEPT ![l] = ctr[l] + 1]
  BY <1>3 DEF SemUp, AcquireLock
<1>5. Others(t) /\ GoesOn(t, "signal") /\ ~Returns(t)
  BY <1>1, <1>2, GotoEffect DEF GoesOn, Returns, TypeOK
<1>6. Moves(t)
  BY <1>2, <1>5 DEF Moves
<1>7. \A u \in Threads \ {t} : ~(at[u] = "asleep" /\ at'[u] = "awake")
  BY <1>2, <1>5 DEF Others
<1>8. PICK i : i = ip[t]
  OBVIOUS
<1>9. DownsBegun(m)' = DownsBegun(m) /\ DownsWoken(m)' = DownsWoken(m)
  <2>1. Watched(t, "semDown", m, DownPlaces) /\ Watched(t, "semDown", m, WokenPlaces)
    BY <1>7 DEF Watched, DownPlaces, WokenPlaces
  <2>2. Op(t).op # "semDown"
    BY <1>2
  <2>3. Past(Sites("semDown", m), DownPlaces)' = Past(Sites("semDown", m), DownPlaces)
    BY <1>1, <1>6, <2>1, <2>2, PastSame
  <2>4. Past(Sites("semDown", m), WokenPlaces)' = Past(Sites("semDown", m), WokenPlaces)
    BY <1>1, <1>6, <2>1, <2>2, PastSame
  <2> QED
    BY <2>3, <2>4 DEF DownsBegun, DownsWoken
<1>10. Watched(t, "semUp", m, UpPlaces)
  BY DEF Watched, UpPlaces
<1>11. (InitDone(m)' <=> InitDone(m))
  BY <1>1, <1>2, <1>6, InitDoneStep DEF Moves
<1>12. \A u \in Threads \ {t} : u \in Signalling(m)' <=> u \in Signalling(m)
  BY <1>1, <1>6, SignallingStep DEF Moves
<1>13. Signalling(m) \subseteq Threads /\ Signalling(m)' \subseteq Threads
  BY DEF Signalling
<1>14. t \notin Signalling(m)
  BY <1>2 DEF Signalling, On
<1>15. CASE m # l
  <2>1. Op(t).m # m
    BY <1>3, <1>15
  <2>2. Past(Sites("semUp", m), UpPlaces)' = Past(Sites("semUp", m), UpPlaces)
    BY <1>1, <1>6, <1>10, <2>1, PastSame
  <2>3. t \notin Signalling(m)'
    <3>1. Op(t)' = Op(t)
      BY <1>2, <1>5 DEF Op, Program, GoesOn
    <3> QED
      BY <2>1, <3>1 DEF Signalling, On
  <2>4. Signalling(m)' = Signalling(m)
    BY <1>12, <1>13, <1>14, <2>3
  <2>5. ctr'[m] = ctr[m]
    BY <1>1, <1>4, <1>15 DEF TypeOK
  <2>6. UpsDone(m)' = UpsDone(m)
    BY <2>2 DEF UpsDone
  <2> QED
    BY <1>2, <1>9, <1>11, <2>4, <2>5, <2>6, Unchanged
<1>16. CASE m = l
  <2>1. Op(t).op = "semUp" /\ Op(t).m = m
    BY <1>2, <1>3, <1>16
  <2>2. InitDone(m) /\ InitDone(m)'
    BY <1>1, <1>2, <1>11, <2>1, InitFirst
  <2>3. ctr[m] = Initial(m) + Cardinality(UpsDone(m)) - Cardinality(DownsBegun(m))
    BY <2>2 DEF SInv, Units
  <2>4. Initial(m)' = Initial(m)
    BY <1>2 DEF Initial, Sites, Program
  <2>5. Initial(m) \in Nat
    BY <1>1, InitialValue
  <2>6. UpsDone(m)' = UpsDone(m) \cup {<<t, i>>} /\ <<t, i>> \notin UpsDone(m)
    <3>1. at[t] \notin UpPlaces /\ at'[t] \in UpPlaces
      BY <1>2, <1>5 DEF UpPlaces, GoesOn
    <3>2. /\ Past(Sites("semUp", m), UpPlaces)' =
               Past(Sites("semUp", m), UpPlaces) \cup {<<t, i>>}
          /\ <<t, i>> \notin Past(Sites("semUp", m), UpPlaces)
      BY <1>1, <1>6, <1>8, <1>10, <2>1, <3>1, PastGrows
    <3> QED
      BY <3>2 DEF UpsDone
  <2>7. /\ Cardinality(UpsDone(m)') = Cardinality(UpsDone(m)) + 1
        /\ Cardinality(UpsDone(m)) \in Nat /\ Cardinality(DownsBegun(m)) \in Nat
        /\ Cardinality(DownsWoken(m)) \in Nat
    BY <1>1, <2>6, PastFinite, FS_AddElement DEF DownsBegun, DownsWoken, UpsDone
  <2>8. /\ Cardinality(Signalling(m)') <= Cardinality(Signalling(m)) + 1
        /\ Cardinality(Signalling(m)) \in Nat /\ Cardinality(Signalling(m)') \in Nat
    <3>1. Signalling(m)' = Signalling(m) \cup {t} \/ Signalling(m)' = Signalling(m)
      BY <1>12, <1>13, <1>14
    <3>2. IsFiniteSet(Signalling(m)) /\ Cardinality(Signalling(m)) \in Nat
      BY SignallingFinite
    <3>3. Cardinality(Signalling(m) \cup {t}) = Cardinality(Signalling(m)) + 1
      BY <1>14, <3>2, FS_AddElement
    <3>4. Cardinality(Signalling(m)') \in
            {Cardinality(Signalling(m)), Cardinality(Signalling(m)) + 1}
      BY <3>1, <3>3
    <3> QED
      BY <3>2, <3>4
  <2>9. ctr'[m] = ctr[m] + 1
    BY <1>1, <1>4, <1>16 DEF TypeOK
  <2>10. ctr'[m] = Initial(m)' + Cardinality(UpsDone(m)') - Cardinality(DownsBegun(m)')
    BY <1>9, <2>3, <2>4, <2>5, <2>7, <2>9
  <2>11. Cardinality(DownsWoken(m)) + Cardinality(Signalling(m))
           <= Initial(m) + Cardinality(UpsDone(m))
    BY DEF SInv, Units
  <2>12. Cardinality(DownsWoken(m)') + Cardinality(Signalling(m)')
           <= Initial(m)' + Cardinality(UpsDone(m)')
    BY <1>9, <2>4, <2>5, <2>7, <2>8, <2>11
  <2> QED
    BY <2>2, <2>10, <2>12 DEF Units
<1> QED
  BY <1>15, <1>16

(* One thread at most is woken for a signal.                               *)
LEMMA SignalWakesOne ==
  ASSUME TypeOK, NEW t \in Threads, Signal(t)
  PROVE  \E w : \A u \in Threads \ {t} :
           at[u] = "asleep" /\ at'[u] = "awake" => u = w
<1>1. PICK W \in OneSleeper(Op(t).m) :
        at' = [u \in Threads |-> IF u = t THEN "release"
                                 ELSE IF u \in W THEN "awake" ELSE at[u]]
  BY DEF Signal
<1>2. \A u \in Threads \ {t} : at[u] = "asleep" /\ at'[u] = "awake" => u \in W
  BY <1>1
<1>3. CASE Sleepers(Op(t).m) = {}
  BY <1>2, <1>3 DEF OneSleeper
<1>4. CASE Sleepers(Op(t).m) # {}
  <2>1. PICK w : W = {w}
    BY <1>1, <1>4 DEF OneSleeper
  <2> QED
    BY <1>2, <2>1
<1> QED
  BY <1>3, <1>4

LEMMA SignalUnits ==
  ASSUME SInv, NEW t \in Threads, NEW m \in Monitors, Signal(t)
  PROVE  Units(m)'
<1>1. TypeOK /\ Births
  BY DEF SInv, LInv
<1>2. /\ test' = test /\ ctr' = ctr /\ at[t] = "signal" /\ InCall(t)
      /\ Op(t).op = "semUp" /\ ~ThreadCreate(t) /\ ~Broadcast(t)
  BY <1>1 DEF Signal, ThreadCreate, Broadcast, Calls, TypeOK, OpsAt
<1>3. Others(t) /\ GoesOn(t, "release") /\ ~Returns(t)
  BY <1>1, SignalEffect DEF GoesOn, Returns, TypeOK
<1>4. Moves(t)
  BY <1>2, <1>3 DEF Moves
<1>5. InitDone(m)' <=> InitDone(m)
  BY <1>1, <1>2, <1>4, InitDoneStep DEF Moves
<1>6. UpsDone(m)' = UpsDone(m)
  <2>1. Watched(t, "semUp", m, UpPlaces)
    BY DEF Watched, UpPlaces
  <2>2. at[t] \in UpPlaces /\ at'[t] \in UpPlaces
    BY <1>2, <1>3 DEF UpPlaces, GoesOn
  <2>3. Past(Sites("semUp", m), UpPlaces)' = Past(Sites("semUp", m), UpPlaces)
    BY <1>1, <1>4, <2>1, <2>2, PastSame
  <2> QED
    BY <2>3 DEF UpsDone
<1>7. DownsBegun(m)' = DownsBegun(m)
  <2>1. Watched(t, "semDown", m, DownPlaces)
    BY DEF Watched, DownPlaces
  <2>2. Op(t).op # "semDown"
    BY <1>2
  <2>3. Past(Sites("semDown", m), DownPlaces)' = Past(Sites("semDown", m), DownPlaces)
    BY <1>1, <1>4, <2>1, <2>2, PastSame
  <2> QED
    BY <2>3 DEF DownsBegun
<1>8. \A u \in Threads \ {t} : u \in Signalling(m)' <=> u \in Signalling(m)
  BY <1>1, <1>4, SignallingStep DEF Moves
<1>9. Signalling(m) \subseteq Threads /\ Signalling(m)' \subseteq Threads
  BY DEF Signalling
<1>10. t \notin Signalling(m)'
  BY <1>3 DEF Signalling, On, GoesOn
<1>11. CASE Op(t).m # m
  <2>1. t \notin Signalling(m)
    BY <1>11 DEF Signalling, On
  <2>2. Signalling(m)' = Signalling(m)
    BY <1>8, <1>9, <1>10, <2>1
  <2>3. Watched(t, "semDown", m, WokenPlaces)
    <3>1. \A u \in Threads \ {t} :
            at[u] = "asleep" /\ at'[u] = "awake" => Op(u).m # m
      BY <1>3, <1>11 DEF Others, On
    <3> QED
      BY <3>1 DEF Watched, WokenPlaces
  <2>4. Op(t).op # "semDown"
    BY <1>2
  <2>5. Past(Sites("semDown", m), WokenPlaces)' = Past(Sites("semDown", m), WokenPlaces)
    BY <1>1, <1>4, <2>3, <2>4, PastSame
  <2>6. DownsWoken(m)' = DownsWoken(m)
    BY <2>5 DEF DownsWoken
  <2> QED
    BY <1>2, <1>5, <1>6, <1>7, <2>2, <2>6, Unchanged
<1>12. CASE Op(t).m = m
  <2>1. t \in Signalling(m)
    BY <1>2, <1>12 DEF Signalling, On, MonitorCalls
  <2>2. Signalling(m)' = Signalling(m) \ {t}
    BY <1>8, <1>9, <1>10
  <2>3. IsFiniteSet(Signalling(m)) /\ Cardinality(Signalling(m)) \in Nat
    BY SignallingFinite
  <2>4. Cardinality(Signalling(m) \ {t}) = Cardinality(Signalling(m)) - 1
    BY <2>1, <2>3, FS_RemoveElement
  <2>5. Cardinality(Signalling(m)') = Cardinality(Signalling(m)) - 1
    BY <2>2, <2>4
  <2>6. PICK w : \A u \in Threads \ {t} :
                   at[u] = "asleep" /\ at'[u] = "awake" => u = w
    BY <1>1, SignalWakesOne
  <2>7. PICK i : i = ip[w]
    OBVIOUS
  <2>8. DownsWoken(m)' \subseteq DownsWoken(m) \cup {<<w, i>>}
    <3>1. /\ Past(Sites("semDown", m), WokenPlaces) =
               {s \in Sites("semDown", m) : CameTo(s, WokenPlaces)}
          /\ Past(Sites("semDown", m), WokenPlaces)' =
               {s \in Sites("semDown", m) : CameTo(s, WokenPlaces)'}
      BY <1>2, PastDef DEF WokenPlaces
    <3>2. ASSUME NEW s \in Sites("semDown", m), CameTo(s, WokenPlaces)',
                 s # <<w, i>>
          PROVE  CameTo(s, WokenPlaces)
      <4>1. /\ s = <<s[1], s[2]>> /\ s[1] \in Threads /\ s[2] \in DOMAIN Program[s[1]]
            /\ Program[s[1]][s[2]].op = "semDown"
        BY SitesDef
      <4>2. ip'[s[1]] = ip[s[1]]
        BY <1>3, <4>1 DEF Others, GoesOn
      <4>3. CASE ip[s[1]] # s[2]
        BY <3>2, <4>2, <4>3 DEF CameTo
      <4>4. CASE ip[s[1]] = s[2]
        <5>1. s[1] # t
          BY <1>2, <4>1, <4>4 DEF Op
        <5>2. s[1] # w
          BY <2>7, <3>2, <4>1, <4>4
        <5>3. at'[s[1]] \in WokenPlaces
          BY <1>1, <3>2, <4>1, <4>2, <4>4 DEF CameTo, TypeOK
        <5> QED
          BY <1>2, <1>3, <2>6, <4>1, <4>4, <5>1, <5>2, <5>3
             DEF Others, CameTo, WokenPlaces
      <4> QED
        BY <4>3, <4>4
    <3> QED
      BY <3>1, <3>2 DEF DownsWoken
  <2>9. /\ IsFiniteSet(DownsWoken(m)) /\ Cardinality(DownsWoken(m)) \in Nat
        /\ Cardinality(UpsDone(m)) \in Nat /\ Initial(m) \in Nat
    BY <1>1, PastFinite, InitialValue DEF DownsWoken, UpsDone
  <2>10. /\ Cardinality(DownsWoken(m)') <= Cardinality(DownsWoken(m)) + 1
         /\ Cardinality(DownsWoken(m)') \in Nat
    <3>1. /\ IsFiniteSet(DownsWoken(m) \cup {<<w, i>>})
          /\ Cardinality(DownsWoken(m) \cup {<<w, i>>}) \in
               {Cardinality(DownsWoken(m)), Cardinality(DownsWoken(m)) + 1}
      BY <2>9, FS_AddElement
    <3>2. /\ Cardinality(DownsWoken(m)') <= Cardinality(DownsWoken(m) \cup {<<w, i>>})
          /\ IsFiniteSet(DownsWoken(m)')
      BY <2>8, <3>1, FS_Subset
    <3>3. Cardinality(DownsWoken(m)') \in Nat
      BY <3>2, FS_CardinalityType
    <3> QED
      BY <2>9, <3>1, <3>2, <3>3
  <2>11. Initial(m)' = Initial(m)
    BY <1>2 DEF Initial, Sites, Program
  <2>12. Cardinality(DownsWoken(m)) + Cardinality(Signalling(m))
           <= Initial(m) + Cardinality(UpsDone(m))
    BY DEF SInv, Units
  <2>13. Cardinality(DownsWoken(m)') + Cardinality(Signalling(m)')
           <= Initial(m)' + Cardinality(UpsDone(m)')
    BY <1>6, <2>3, <2>5, <2>9, <2>10, <2>11, <2>12
  <2>14. /\ InitDone(m)' => ctr'[m] = Initial(m)' + Cardinality(UpsDone(m)')
                                        - Cardinality(DownsBegun(m)')
         /\ ~InitDone(m)' => UpsDone(m)' = {} /\ DownsBegun(m)' = {}
    BY <1>2, <1>5, <1>6, <1>7, <2>11 DEF SInv, Units
  <2> QED
    BY <2>13, <2>14 DEF Units
<1> QED
  BY <1>11, <1>12

-----------------------------------------------------------------------------
LEMMA SInvInit == Init => SInv
<1> SUFFICES ASSUME Init PROVE SInv
  OBVIOUS
<1>1. LInv /\ TypeOK
  BY LInvInit DEF LInv
<1>2. \A t \in Threads : /\ ip[t] = 1 /\ at[t] \in {"client", "unborn"}
                         /\ t # Main => at[t] = "unborn"
  BY DEF Init
<1>3. FirstCreator
  BY <1>2 DEF FirstCreator
<1>4. ASSUME NEW m \in Monitors PROVE Units(m)
  <2>1. \A u \in Threads : \A i \in DOMAIN Program[u] : i \in Nat \ {0}
    BY <1>1, UlibAssumption DEF UlibAssumption, Program, TypeOK
  <2>2. \A op : \A s \in Sites(op, m) :
          s[1] \in Threads /\ s[2] \in Nat \ {0} /\ ip[s[1]] = 1
    BY <1>2, <2>1, SitesDef
  <2>3. \A op : \A s \in Sites(op, m) : ~(ip[s[1]] > s[2])
    BY <2>2
  <2>4. /\ UpsDone(m) = {} /\ DownsBegun(m) = {} /\ DownsWoken(m) = {}
    BY <1>2, <2>2, <2>3
       DEF UpsDone, DownsBegun, DownsWoken, Past, UpPlaces, DownPlaces, WokenPlaces
  <2>5. Signalling(m) = {}
    BY <1>2 DEF Signalling, On
  <2>6. Cardinality({}) = 0 /\ ctr[m] = 0 /\ Initial(m) \in Nat
    BY <1>1, FS_EmptySet, InitialValue DEF Init
  <2>7. InitDone(m) => Initial(m) = 0
    <3>1. InitDone(m) => Sites("semInit", m) = {}
      BY <2>3 DEF InitDone
    <3> QED
      BY <3>1 DEF Initial
  <2> QED
    BY <2>4, <2>5, <2>6, <2>7 DEF Units
<1> QED
  BY <1>1, <1>3, <1>4 DEF SInv

LEMMA SInvStep == SInv /\ [Next]_vars => SInv'
<1> SUFFICES ASSUME SInv, [Next]_vars PROVE SInv'
  OBVIOUS
<1>1. LInv'
  BY LInvStep DEF SInv
<1>2. CASE UNCHANGED vars
  <2>1. FirstCreator'
    BY <1>2 DEF SInv, FirstCreator, vars, Program
  <2>2. ASSUME NEW m \in Monitors PROVE Units(m)'
    <3>1. Program' = Program /\ test' = test /\ ip' = ip /\ at' = at /\ ctr' = ctr
      BY <1>2 DEF vars, Program
    <3>2. InitDone(m)' <=> InitDone(m)
      BY <3>1 DEF InitDone, Sites
    <3>3. /\ UpsDone(m)' = UpsDone(m) /\ DownsBegun(m)' = DownsBegun(m)
          /\ DownsWoken(m)' = DownsWoken(m)
      BY <3>1 DEF UpsDone, DownsBegun, DownsWoken, Past, Sites, UpPlaces,
                  DownPlaces, WokenPlaces
    <3>4. Signalling(m)' = Signalling(m)
      BY <3>1 DEF Signalling, On, InCall, Op
    <3> QED
      BY <3>1, <3>2, <3>3, <3>4, Unchanged
  <2> QED
    BY <1>1, <2>1, <2>2 DEF SInv
<1>3. ASSUME NEW t \in Threads, Step(t) PROVE SInv'
  <2>1. FirstCreator'
    BY <1>3, FirstCreatorStep
  <2>2. ASSUME NEW m \in Monitors PROVE Units(m)'
    BY <1>3, CallUnits, WaitingUnits, SemInitUnits, SemDownUnits, SemUpUnits,
       SignalUnits DEF Step, Library
  <2> QED
    BY <1>1, <2>1, <2>2 DEF SInv
<1> QED
  BY <1>2, <1>3 DEF Next

(* No thread passes a semDown without a unit, neither through the counter  *)
(* nor through a wakeup: at most one thread is woken for each semUp, and   *)
(* who comes between the semUp and the wakeup finds no unit of its.        *)
THEOREM SemaphoresAreBounded == Spec => []SemaphoreBound
<1>1. SInv /\ [Next]_vars => SInv'
  BY SInvStep
<1>2. SInv => SemaphoreBound
  <2> SUFFICES ASSUME SInv, NEW m \in Monitors PROVE Downs(m) <= Initial(m) + Ups(m)
    BY DEF SemaphoreBound
  <2>1. TypeOK
    BY DEF SInv, LInv
  <2>2. Ups(m) = Cardinality(UpsDone(m))
    BY DEF Ups, UpsDone, UpPlaces
  <2>3. Past(Sites("semDown", m), {"release"}) \subseteq DownsWoken(m)
    BY DEF Past, DownsWoken, WokenPlaces
  <2>4. IsFiniteSet(DownsWoken(m)) /\ Cardinality(DownsWoken(m)) \in Nat
    BY <2>1, PastFinite DEF DownsWoken
  <2>5. Downs(m) <= Cardinality(DownsWoken(m)) /\ Downs(m) \in Nat
    BY <2>1, <2>3, <2>4, FS_Subset, PastFinite DEF Downs
  <2>6. Cardinality(UpsDone(m)) \in Nat /\ Initial(m) \in Nat
    BY <2>1, PastFinite, InitialValue DEF UpsDone
  <2>7. Cardinality(Signalling(m)) \in Nat
    BY SignallingFinite
  <2>8. Cardinality(DownsWoken(m)) + Cardinality(Signalling(m))
          <= Initial(m) + Cardinality(UpsDone(m))
    BY DEF SInv, Units
  <2> QED
    BY <2>2, <2>4, <2>5, <2>6, <2>7, <2>8
<1> QED
  BY <1>1, <1>2, SInvInit, PTL DEF Spec

-----------------------------------------------------------------------------
(* The programs t_sem2 and t_l_cv2 print their lines in the order they     *)
(* announce.                                                               *)

TheTests == /\ Threads = TestThreads /\ Main = "main" /\ Monitors = {"s1", "s2"}
            /\ Programs = Tests /\ Values = Bit

LEMMA ProgramOf ==
  ASSUME TheTests, TypeOK
  PROVE  /\ test \in {"t_sem1", "t_sem2", "t_l_cv"}
         /\ test = "t_sem2" => Program = Sem2
         /\ test = "t_l_cv" => Program = Cv
         /\ Threads = {"main", "a", "b", "c"}
  BY DEF TheTests, Tests, Program, TypeOK, TestThreads

LEMMA JoinsSeq ==
  /\ Joins \in Seq({Join("a"), Join("b"), Join("c")})
  /\ \A S : {Join("a"), Join("b"), Join("c")} \subseteq S => Joins \in Seq(S)
  BY DEF Joins

LEMMA Sem2Programs ==
  ASSUME TheTests, TypeOK, test = "t_sem2"
  PROVE  /\ \A t \in {"a", "b"} : /\ DOMAIN Program[t] = 1..2
                                  /\ Program[t][1] = D("s1") /\ Program[t][2] = U("s2")
         /\ DOMAIN Program["c"] = 1..4
         /\ Program["c"][1] = U("s1") /\ Program["c"][3] = U("s1")
         /\ Program["c"][2] = D("s2") /\ Program["c"][4] = D("s2")
         /\ \A i \in DOMAIN Program["main"] :
              /\ Program["main"][i].op \notin {"semUp", "semDown"}
              /\ Program["main"][i].op = "semInit" => Program["main"][i].v = 0
<1>1. Program = Sem2
  BY ProgramOf
<1>2. /\ \A t \in {"a", "b"} : Program[t] = <<D("s1"), U("s2")>>
      /\ Program["c"] = <<U("s1"), D("s2"), U("s1"), D("s2")>>
  BY <1>1 DEF Sem2
<1>3. ASSUME NEW t \in {"a", "b"}
      PROVE  /\ DOMAIN Program[t] = 1..2
             /\ Program[t][1] = D("s1") /\ Program[t][2] = U("s2")
  <2>1. Program[t] = <<D("s1"), U("s2")>>
    BY <1>2
  <2> QED BY <2>1
<1>4. /\ DOMAIN Program["c"] = 1..4
      /\ Program["c"][1] = U("s1") /\ Program["c"][3] = U("s1")
      /\ Program["c"][2] = D("s2") /\ Program["c"][4] = D("s2")
  BY <1>2
<1>5. PICK S : S = {Init0("s1", 0), Init0("s2", 0), New("a"), New("b"), New("c"),
                    Join("a"), Join("b"), Join("c")}
  OBVIOUS
<1>6. Program["main"] \in Seq(S)
  <2>1. Program["main"] = <<Init0("s1", 0), Init0("s2", 0), New("a"), New("b"), New("c")>> \o Joins
    BY <1>1 DEF Sem2
  <2>2. <<Init0("s1", 0), Init0("s2", 0), New("a"), New("b"), New("c")>> \in Seq(S)
    BY <1>5
  <2>3. Joins \in Seq(S)
    BY <1>5, JoinsSeq
  <2> QED BY <2>1, <2>2, <2>3, ConcatProperties
<1>7. \A o \in S : o.op \notin {"semUp", "semDown"} /\ (o.op = "semInit" => o.v = 0)
  BY <1>5 DEF Init0, New, Join
<1>8. \A i \in DOMAIN Program["main"] : Program["main"][i] \in S
  BY <1>6
<1> QED BY <1>3, <1>4, <1>7, <1>8

LEMMA CvPrograms ==
  ASSUME TheTests, TypeOK, test = "t_l_cv"
  PROVE  /\ Program["a"] = Toggle(1, 1) /\ Program["b"] = Toggle(0, 0)
         /\ \A t \in {"main", "c"} : \A i \in DOMAIN Program[t] :
              Program[t][i].op # "set"
<1>1. Program = Cv
  BY ProgramOf
<1>2. /\ Program["a"] = Toggle(1, 1) /\ Program["b"] = Toggle(0, 0)
      /\ Program["c"] = <<Acq("s2"), BC("s2"), Rel("s2")>>
      /\ Program["main"] = <<Acq("s2"), New("a"), New("b"), New("c"), CV("s2"), Rel("s2")>> \o Joins
  BY <1>1 DEF Cv
<1>3. PICK S : S = {Acq("s2"), BC("s2"), Rel("s2"), CV("s2"), New("a"), New("b"), New("c"),
                    Join("a"), Join("b"), Join("c")}
  OBVIOUS
<1>4. Program["main"] \in Seq(S) /\ Program["c"] \in Seq(S)
  <2>1. <<Acq("s2"), New("a"), New("b"), New("c"), CV("s2"), Rel("s2")>> \in Seq(S)
    BY <1>3
  <2>2. Joins \in Seq(S)
    BY <1>3, JoinsSeq
  <2>3. <<Acq("s2"), BC("s2"), Rel("s2")>> \in Seq(S)
    BY <1>3
  <2> QED BY <1>2, <2>1, <2>2, <2>3, ConcatProperties
<1>5. \A o \in S : o.op # "set"
  BY <1>3 DEF Acq, BC, Rel, CV, New, Join
<1>6. \A t \in {"main", "c"} : \A i \in DOMAIN Program[t] : Program[t][i] \in S
  BY <1>4
<1> QED BY <1>2, <1>5, <1>6

(* The calls of the toggles. *)
LEMMA ToggleCalls ==
  ASSUME NEW v, NEW w
  PROVE  /\ DOMAIN Toggle(v, w) = 1..(3 * Rounds + 2)
         /\ \A k \in 1..(3 * Rounds + 2) :
              /\ k % 3 = 2 /\ k < 3 * Rounds + 2 => Toggle(v, w)[k] = Whl(v)
              /\ k % 3 = 0 => Toggle(v, w)[k] = Put(w)
              /\ ~(k % 3 = 2 /\ k < 3 * Rounds + 2) /\ k % 3 # 0 =>
                   Toggle(v, w)[k].op \notin {"while", "set"}
<1>1. Rounds \in Nat
  BY RoundsAssumption DEF RoundsAssumption
<1>2. (3 * Rounds + 2) % 3 = 2
  BY <1>1
<1>3. ASSUME NEW k \in 1..(3 * Rounds + 2)
      PROVE  Toggle(v, w)[k] = IF k = 1 THEN Acq("s1")
                               ELSE IF k = 3 * Rounds + 2 THEN Rel("s1")
                               ELSE IF k % 3 = 2 THEN Whl(v)
                               ELSE IF k % 3 = 0 THEN Put(w) ELSE BC("s1")
  BY <1>1 DEF Toggle
<1>4. \A m : /\ Acq(m).op \notin {"while", "set"} /\ Rel(m).op \notin {"while", "set"}
             /\ BC(m).op \notin {"while", "set"}
  BY DEF Acq, Rel, BC
<1>5. ASSUME NEW k \in 1..(3 * Rounds + 2)
      PROVE  /\ k % 3 = 2 /\ k < 3 * Rounds + 2 => Toggle(v, w)[k] = Whl(v)
             /\ k % 3 = 0 => Toggle(v, w)[k] = Put(w)
             /\ ~(k % 3 = 2 /\ k < 3 * Rounds + 2) /\ k % 3 # 0 =>
                   Toggle(v, w)[k].op \notin {"while", "set"}
  BY <1>1, <1>2, <1>3, <1>4
<1> QED BY <1>5 DEF Toggle

(* Where the semaphores of t_sem2 are used. *)
LEMMA Sem2Sites ==
  ASSUME TheTests, TypeOK, test = "t_sem2"
  PROVE  /\ Sites("semDown", "s1") = {<<"a", 1>>, <<"b", 1>>}
         /\ Sites("semUp", "s2") = {<<"a", 2>>, <<"b", 2>>}
         /\ Sites("semUp", "s1") = {<<"c", 1>>, <<"c", 3>>}
         /\ Sites("semDown", "s2") = {<<"c", 2>>, <<"c", 4>>}
         /\ \A m \in {"s1", "s2"} : Initial(m) = 0
<1>1. \A m : /\ D(m).op = "semDown" /\ D(m).m = m /\ U(m).op = "semUp" /\ U(m).m = m
  BY DEF D, U
<1>2. ASSUME NEW op \in {"semUp", "semDown"}, NEW m
      PROVE  Sites(op, m) = {s \in {<<"a", 1>>, <<"a", 2>>, <<"b", 1>>, <<"b", 2>>,
                                    <<"c", 1>>, <<"c", 2>>, <<"c", 3>>, <<"c", 4>>} :
                               Program[s[1]][s[2]].op = op /\ Program[s[1]][s[2]].m = m}
  <2>1. ASSUME NEW s \in Sites(op, m)
        PROVE  /\ s \in {<<"a", 1>>, <<"a", 2>>, <<"b", 1>>, <<"b", 2>>,
                         <<"c", 1>>, <<"c", 2>>, <<"c", 3>>, <<"c", 4>>}
               /\ Program[s[1]][s[2]].op = op /\ Program[s[1]][s[2]].m = m
    <3>1. PICK t, i : s = <<t, i>> /\ t \in Threads /\ i \in DOMAIN Program[t]
                      /\ Program[t][i].op = op /\ Program[t][i].m = m
      BY <2>1, SitesDef
    <3>2. t # "main"
      BY <1>2, <3>1, Sem2Programs
    <3>3. (t \in {"a", "b"} /\ i \in {1, 2}) \/ (t = "c" /\ i \in {1, 2, 3, 4})
      BY <3>1, <3>2, ProgramOf, Sem2Programs
    <3> QED BY <3>1, <3>3
  <2>2. ASSUME NEW s \in {<<"a", 1>>, <<"a", 2>>, <<"b", 1>>, <<"b", 2>>,
                          <<"c", 1>>, <<"c", 2>>, <<"c", 3>>, <<"c", 4>>},
               Program[s[1]][s[2]].op = op, Program[s[1]][s[2]].m = m
        PROVE  s \in Sites(op, m)
    <3>1. s = <<s[1], s[2]>> /\ s[1] \in Threads /\ s[2] \in DOMAIN Program[s[1]]
      BY <2>2, ProgramOf, Sem2Programs
    <3> QED BY <2>2, <3>1, SitesDef
  <2> QED BY <2>1, <2>2
<1>3. /\ Program["a"][1] = D("s1") /\ Program["a"][2] = U("s2")
      /\ Program["b"][1] = D("s1") /\ Program["b"][2] = U("s2")
      /\ Program["c"][1] = U("s1") /\ Program["c"][3] = U("s1")
      /\ Program["c"][2] = D("s2") /\ Program["c"][4] = D("s2")
  BY Sem2Programs
<1>4. Sites("semDown", "s1") = {<<"a", 1>>, <<"b", 1>>}
  BY <1>1, <1>2, <1>3
<1>5. Sites("semUp", "s2") = {<<"a", 2>>, <<"b", 2>>}
  BY <1>1, <1>2, <1>3
<1>6. Sites("semUp", "s1") = {<<"c", 1>>, <<"c", 3>>}
  BY <1>1, <1>2, <1>3
<1>7. Sites("semDown", "s2") = {<<"c", 2>>, <<"c", 4>>}
  BY <1>1, <1>2, <1>3
<1>8. ASSUME NEW m \in {"s1", "s2"} PROVE Initial(m) = 0
  <2>1. ASSUME NEW s \in Sites("semInit", m) PROVE Program[s[1]][s[2]].v = 0
    <3>1. PICK t, i : s = <<t, i>> /\ t \in Threads /\ i \in DOMAIN Program[t]
                      /\ Program[t][i].op = "semInit"
      BY <2>1, SitesDef
    <3>2. t = "main"
      <4>1. ASSUME t \in {"a", "b"} PROVE FALSE
        <5>1. i \in {1, 2}
          BY <3>1, <4>1, Sem2Programs
        <5> QED BY <1>1, <1>3, <3>1, <4>1, <5>1
      <4>2. ASSUME t = "c" PROVE FALSE
        <5>1. i \in {1, 2, 3, 4}
          BY <3>1, <4>2, Sem2Programs
        <5> QED BY <1>1, <1>3, <3>1, <4>2, <5>1
      <4> QED BY <3>1, <4>1, <4>2, ProgramOf
    <3> QED BY <3>1, <3>2, Sem2Programs
  <2> QED BY <2>1 DEF Initial
<1> QED BY <1>4, <1>5, <1>6, <1>7, <1>8

LEMMA Singles == \A e : Cardinality({e}) = 1 /\ IsFiniteSet({e})
  BY FS_Singleton

LEMMA Pairs ==
  ASSUME NEW e, NEW f, e # f PROVE Cardinality({e, f}) = 2 /\ IsFiniteSet({e, f})
<1>a. PICK P : P = {e, f}
  OBVIOUS
<1>b. PICK Q : Q = {e}
  OBVIOUS
<1>1. P = {e, f} /\ Q = {e} /\ P = Q \cup {f} /\ f \notin Q
  BY <1>a, <1>b
<1>2. Cardinality(Q) = 1 /\ IsFiniteSet(Q)
  BY <1>1, FS_Singleton
<1>3. IsFiniteSet(Q \cup {f}) /\ Cardinality(Q \cup {f}) = Cardinality(Q) + 1
  BY <1>1, <1>2, FS_AddElement
<1>4. Cardinality(P) = 2 /\ IsFiniteSet(P)
  BY <1>1, <1>2, <1>3
<1> QED BY <1>1, <1>4

LEMMA AtMostOne == ASSUME NEW S, NEW e, S \subseteq {e} PROVE Cardinality(S) <= 1
<1>1. PICK Q : Q = {e}
  OBVIOUS
<1>2. IsFiniteSet(Q) /\ Cardinality(Q) = 1 /\ S \subseteq Q
  BY <1>1, FS_Singleton
<1> QED BY <1>2, FS_Subset

LEMMA AtLeastTwo ==
  ASSUME NEW S, IsFiniteSet(S), NEW e \in S, NEW f \in S, e # f
  PROVE  2 <= Cardinality(S)
<1>1. PICK P : P = {e, f}
  OBVIOUS
<1>2. Cardinality(P) = 2 /\ P \subseteq S
  BY <1>1, Pairs
<1> QED BY <1>2, FS_Subset

(* t_sem2: what has come through a semaphore is bound by the semUps, on    *)
(* both semaphores, so the printing of one side bounds that of the other.  *)
LEMMA Sem2InOrder ==
  ASSUME TheTests, TypeOK, SemaphoreBound PROVE Sem2Order
<1> SUFFICES ASSUME test = "t_sem2"
             PROVE  /\ ip["c"] = 1 /\ at["c"] \in {"unborn", "client"} => Printed = {}
                    /\ ip["c"] = 3 /\ at["c"] = "client" => Cardinality(Printed) = 1
                    /\ ip["c"] = 5 => Cardinality(Printed) = 2
  BY DEF Sem2Order
<1> DEFINE downs1 == Past(Sites("semDown", "s1"), {"release"})
           ups1   == Past(Sites("semUp", "s1"), {"signal", "release"})
           downs2 == Past(Sites("semDown", "s2"), {"release"})
           ups2   == Past(Sites("semUp", "s2"), {"signal", "release"})
<1>1. /\ Cardinality(downs1) <= Cardinality(ups1)
      /\ Cardinality(downs2) <= Cardinality(ups2)
  <2>1. /\ Downs("s1") <= Initial("s1") + Ups("s1")
        /\ Downs("s2") <= Initial("s2") + Ups("s2")
    BY DEF SemaphoreBound, TheTests
  <2>2. Ups("s1") \in Nat /\ Ups("s2") \in Nat
    BY PastFinite DEF Ups
  <2>3. Initial("s1") = 0 /\ Initial("s2") = 0
    BY Sem2Sites
  <2> QED BY <2>1, <2>2, <2>3 DEF Ups, Downs
<1>2. /\ IsFiniteSet(downs1) /\ IsFiniteSet(ups1) /\ IsFiniteSet(downs2) /\ IsFiniteSet(ups2)
      /\ Cardinality(downs1) \in Nat /\ Cardinality(ups1) \in Nat
      /\ Cardinality(downs2) \in Nat /\ Cardinality(ups2) \in Nat
  BY PastFinite
<1>3. ip["a"] \in Nat \ {0} /\ ip["b"] \in Nat \ {0} /\ ip["c"] \in Nat \ {0}
  BY ProgramOf DEF TypeOK
<1>4. /\ \A t \in {"a", "b"} : t \in Printed => <<t, 1>> \in downs1
      /\ \A s \in ups2 : s \in {<<"a", 2>>, <<"b", 2>>} /\ s[1] \in Printed
      /\ \A s \in ups1 : \/ s = <<"c", 1>> /\ (ip["c"] > 1 \/ at["c"] \in {"signal", "release"})
                         \/ s = <<"c", 3>> /\ (ip["c"] > 3 \/ (ip["c"] = 3 /\ at["c"] \in {"signal", "release"}))
      /\ ip["c"] > 2 => <<"c", 2>> \in downs2
      /\ ip["c"] > 4 => <<"c", 4>> \in downs2
  BY <1>3, Sem2Sites DEF Past, Printed
<1>5. Printed \subseteq {"a", "b"}
  BY DEF Printed
<1>8. CASE ip["c"] = 1 /\ at["c"] \in {"unborn", "client"}
  <2>1. ups1 = {}
    BY <1>4, <1>8
  <2>2. downs1 = {}
    BY <1>1, <1>2, <2>1, FS_EmptySet
  <2> QED BY <1>4, <1>5, <1>8, <2>2
<1>9. CASE ip["c"] = 3 /\ at["c"] = "client"
  <2>1. ups1 \subseteq {<<"c", 1>>}
    BY <1>4, <1>9
  <2>2. Cardinality(ups1) <= 1
    BY <2>1, AtMostOne
  <2>3. ~({"a", "b"} \subseteq Printed)
    <3> SUFFICES ASSUME "a" \in Printed, "b" \in Printed PROVE FALSE
      OBVIOUS
    <3>1. <<"a", 1>> \in downs1 /\ <<"b", 1>> \in downs1 /\ <<"a", 1>> # <<"b", 1>>
      BY <1>4
    <3>2. 2 <= Cardinality(downs1)
      BY <1>2, <3>1, AtLeastTwo
    <3> QED BY <1>1, <1>2, <2>2, <3>2
  <2>4. ups2 # {}
    <3>1. downs2 # {}
      BY <1>4, <1>9
    <3>2. Cardinality(downs2) # 0
      BY <1>2, <3>1, FS_EmptySet
    <3> QED BY <1>1, <1>2, <3>2, FS_EmptySet
  <2>5. PICK t \in {"a", "b"} : t \in Printed
    BY <1>4, <1>5, <2>4
  <2>6. Printed = {t}
    BY <1>5, <2>3, <2>5
  <2>7. Cardinality(Printed) = 1
    BY <2>6, Singles
  <2> QED BY <1>9, <2>7
<1>10. CASE ip["c"] = 5
  <2>1. <<"c", 2>> \in downs2 /\ <<"c", 4>> \in downs2 /\ <<"c", 2>> # <<"c", 4>>
    BY <1>4, <1>10
  <2>2. 2 <= Cardinality(ups2)
    <3>1. 2 <= Cardinality(downs2)
      BY <1>2, <2>1, AtLeastTwo
    <3> QED BY <1>1, <1>2, <3>1
  <2>3. Printed = {"a", "b"}
    <3>1. ASSUME NEW t \in {"a", "b"}, NEW u \in {"a", "b"}, t # u, t \notin Printed PROVE FALSE
      <4>1. ups2 \subseteq {<<u, 2>>}
        BY <1>4, <3>1
      <4>2. Cardinality(ups2) <= 1
        BY <4>1, AtMostOne
      <4> QED BY <1>2, <2>2, <4>2
    <3> QED BY <1>5, <3>1
  <2>4. Cardinality(Printed) = 2
    BY <2>3, Pairs
  <2> QED BY <1>10, <2>4
<1> QED BY <1>8, <1>9, <1>10

-----------------------------------------------------------------------------
(* What a step of t does to its place in the program and to x.             *)
LEMMA SharedEffect ==
  ASSUME TypeOK, Births, NEW t \in Threads, Step(t)
  PROVE  /\ test' = test
         /\ \/ ip' = ip /\ x' = x
            \/ /\ ip' = [ip EXCEPT ![t] = @ + 1] /\ ip[t] \in DOMAIN Program[t]
               /\ Op(t).op = "set" => x' = Op(t).v
               /\ Op(t).op # "set" => x' = x
               /\ Op(t).op = "while" => x # Op(t).v
<1>1. test' = test /\ InCall(t) /\ ip[t] \in DOMAIN Program[t] /\ Op(t).op \in OpsAt(at[t])
  BY StepEffect DEF TypeOK
<1>2. CASE CondWait(t) \/ SleepChan(t) \/ SemDown(t) \/ SemUp(t)
  BY <1>1, <1>2 DEF CondWait, SleepChan, SemDown, SemUp, Goto
<1>3. CASE Signal(t)
  BY <1>1, <1>3 DEF Signal
<1>4. CASE Reacquire(t)
  <2>1. CASE Op(t).op = "condWait"
    BY <1>1, <1>4, <2>1 DEF Reacquire, Return, Resume
  <2>2. CASE Op(t).op # "condWait"
    <3>1. Op(t).op \in {"semDown", "while"}
      BY <1>1, <1>4, <2>2 DEF Reacquire, OpsAt
    <3> QED BY <1>1, <1>4, <3>1 DEF Reacquire, Goto
  <2> QED BY <2>1, <2>2
<1>5. CASE SemReturn(t)
  <2>1. Op(t).op \in {"semUp", "semDown"}
    BY <1>1, <1>5 DEF SemReturn, OpsAt
  <2> QED BY <1>1, <1>5, <2>1 DEF SemReturn, Return, Resume
<1>6. CASE Lock(t) \/ Unlock(t) \/ SemInit(t) \/ ThreadJoin(t)
  BY <1>1, <1>6 DEF Lock, Unlock, SemInit, ThreadJoin, Calls, Return, Resume
<1>7. CASE Broadcast(t)
  BY <1>1, <1>7 DEF Broadcast, Calls, Resume
<1>8. CASE ThreadCreate(t)
  BY <1>1, <1>8 DEF ThreadCreate, Calls
<1>9. CASE WhileEnds(t)
  BY <1>1, <1>9 DEF WhileEnds, Calls, Holds, Return, Resume
<1>10. CASE SetX(t)
  BY <1>1, <1>10 DEF SetX, Calls, Return, Resume
<1> QED
  BY <1>2, <1>3, <1>4, <1>5, <1>6, <1>7, <1>8, <1>9, <1>10 DEF Step, Library

(* A toggle prints when it has left its while, and sets x before it comes  *)
(* to the next one.                                                        *)
Printing(t) == ip[t] % 3 = 0 /\ ip[t] <= 3 * Rounds
Turns(t)    == (ip[t] - 1) \div 3

(* x says whose turn it is: it is the number of turns that toggle1 is ahead*)
(* of toggle2, and only the toggle whose turn it is has left its while.    *)
CvTurns ==
  /\ Turns("a") = Turns("b") + x
  /\ Printing("a") => x = 0
  /\ Printing("b") => x = 1
  /\ \A t \in {"a", "b"} : Lines(t) = Turns(t) + (IF Printing(t) THEN 1 ELSE 0)

LEMMA Thirds ==
  ASSUME NEW n \in Nat \ {0}
  PROVE  /\ n \div 3 \in Nat /\ (n - 1) \div 3 \in Nat /\ (n + 1) - 1 = n
         /\ n % 3 = 0 => n \div 3 = ((n - 1) \div 3) + 1 /\ (n + 1) % 3 # 0
         /\ n % 3 # 0 => n \div 3 = (n - 1) \div 3
         /\ n % 3 = 2 <=> (n + 1) % 3 = 0
  BY SMT

LEMMA LinesGrow ==
  ASSUME TypeOK, test' = test, NEW t \in Threads, ip' = [ip EXCEPT ![t] = @ + 1]
  PROVE  /\ Lines(t) \in Nat
         /\ Lines(t)' = IF Op(t).op = "while" THEN Lines(t) + 1 ELSE Lines(t)
         /\ \A u \in Threads \ {t} : ip'[u] = ip[u] /\ Lines(u)' = Lines(u)
<1>1. /\ ip[t] \in Nat \ {0} /\ ip'[t] = ip[t] + 1 /\ Program' = Program
      /\ \A u \in Threads \ {t} : ip'[u] = ip[u]
  BY DEF TypeOK, Program
<1>2. PICK n, P : n = ip[t] /\ P = Program[t]
  OBVIOUS
<1>3. PICK low, high :
               /\ low = {i \in 1..(n - 1) : P[i].op = "while"}
               /\ high = {i \in 1..((n + 1) - 1) : P[i].op = "while"}
  OBVIOUS
<1>4. Lines(t) = Cardinality(low) /\ Lines(t)' = Cardinality(high)
  BY <1>1, <1>2, <1>3 DEF Lines
<1>5. IsFiniteSet(low) /\ Cardinality(low) \in Nat
  <2>1. IsFiniteSet(1..(n - 1))
    BY <1>1, <1>2, FS_Interval
  <2>2. low \subseteq 1..(n - 1)
    BY <1>3
  <2> QED BY <2>1, <2>2, FS_Subset, FS_CardinalityType
<1>6. n \notin low
  BY <1>1, <1>2, <1>3
<1>7. high = IF P[n].op = "while" THEN low \cup {n} ELSE low
  BY <1>1, <1>2, <1>3
<1>8. Cardinality(low \cup {n}) = Cardinality(low) + 1
  BY <1>5, <1>6, FS_AddElement
<1>9. \A u \in Threads \ {t} : Lines(u)' = Lines(u)
  BY <1>1 DEF Lines
<1> QED BY <1>1, <1>2, <1>4, <1>5, <1>7, <1>8, <1>9 DEF Op

(* What a step of a toggle adds to its turns and its lines. *)
LEMMA TogglesTurn ==
  ASSUME TypeOK, test' = test, NEW t \in Threads, NEW v, NEW w,
         Program[t] = Toggle(v, w), ip[t] \in DOMAIN Program[t],
         ip' = [ip EXCEPT ![t] = @ + 1], Turns(t) \in Int,
         Lines(t) = Turns(t) + (IF Printing(t) THEN 1 ELSE 0)
  PROVE  /\ Lines(t)' = Turns(t)' + (IF Printing(t)' THEN 1 ELSE 0)
         /\ \/ /\ Op(t) = Whl(v) /\ Turns(t)' = Turns(t) /\ ~Printing(t) /\ Printing(t)'
            \/ /\ Op(t) = Put(w) /\ Turns(t)' = Turns(t) + 1 /\ Printing(t) /\ ~Printing(t)'
            \/ /\ Op(t).op \notin {"while", "set"} /\ Turns(t)' = Turns(t)
               /\ ~Printing(t) /\ ~Printing(t)'
<1>1. PICK n : n = ip[t]
  OBVIOUS
<1>2. Rounds \in Nat /\ n \in Nat \ {0} /\ n \in 1..(3 * Rounds + 2) /\ ip'[t] = n + 1
  BY <1>1, RoundsAssumption, ToggleCalls DEF TypeOK, RoundsAssumption
<1>3. /\ n % 3 = 2 /\ n < 3 * Rounds + 2 => Op(t) = Whl(v)
      /\ n % 3 = 0 => Op(t) = Put(w)
      /\ ~(n % 3 = 2 /\ n < 3 * Rounds + 2) /\ n % 3 # 0 => Op(t).op \notin {"while", "set"}
  BY <1>1, <1>2, ToggleCalls DEF Op
<1>4. Whl(v).op = "while" /\ Put(w).op = "set"
  BY DEF Whl, Put
<1>5. Lines(t)' = IF Op(t).op = "while" THEN Lines(t) + 1 ELSE Lines(t)
  BY LinesGrow
<1>6. /\ Turns(t) = (n - 1) \div 3 /\ Turns(t)' = ((n + 1) - 1) \div 3
      /\ Printing(t) <=> n % 3 = 0 /\ n <= 3 * Rounds
      /\ Printing(t)' <=> (n + 1) % 3 = 0 /\ n + 1 <= 3 * Rounds
  BY <1>1, <1>2 DEF Turns, Printing
<1>7. PICK a, b : a = Turns(t) /\ b = Turns(t)'
  OBVIOUS
<1>8. CASE n % 3 = 2 /\ n < 3 * Rounds + 2
  <2>1. n + 1 <= 3 * Rounds
    BY <1>2, <1>8
  <2>2. ~Printing(t) /\ Printing(t)' /\ Turns(t)' = Turns(t)
    BY <1>2, <1>6, <1>8, <2>1, Thirds
  <2> QED BY <1>3, <1>4, <1>5, <1>8, <2>2
<1>9. CASE n % 3 = 0
  <2>1. n <= 3 * Rounds
    BY <1>2, <1>9
  <2>2. Printing(t) /\ ~Printing(t)' /\ Turns(t)' = Turns(t) + 1
    BY <1>2, <1>6, <1>9, <2>1, Thirds
  <2> QED BY <1>3, <1>4, <1>5, <1>9, <2>2
<1>10. CASE ~(n % 3 = 2 /\ n < 3 * Rounds + 2) /\ n % 3 # 0
  <2>1. ~Printing(t) /\ ~Printing(t)' /\ Turns(t)' = Turns(t)
    BY <1>2, <1>6, <1>10, Thirds
  <2> QED BY <1>3, <1>4, <1>5, <1>10, <2>1
<1> QED BY <1>8, <1>9, <1>10

LEMMA CvTurnsStep ==
  ASSUME TheTests, LInv, test = "t_l_cv", CvTurns, [Next]_vars
  PROVE  CvTurns'
<1>0. /\ TypeOK /\ Births /\ x \in {0, 1}
      /\ "a" \in Threads /\ "b" \in Threads
      /\ ip["a"] \in Nat \ {0} /\ ip["b"] \in Nat \ {0}
  BY ProgramOf DEF LInv, TypeOK, TheTests, Bit
<1>1. Turns("a") \in Nat /\ Turns("b") \in Nat
  BY <1>0, Thirds DEF Turns
<1>2. CASE test' = test /\ ip' = ip /\ x' = x
  BY <1>2 DEF CvTurns, Turns, Printing, Lines, Program
<1>3. ASSUME NEW t \in Threads, test' = test,
             ip' = [ip EXCEPT ![t] = @ + 1], ip[t] \in DOMAIN Program[t],
             Op(t).op = "set" => x' = Op(t).v,
             Op(t).op # "set" => x' = x,
             Op(t).op = "while" => x # Op(t).v
      PROVE  CvTurns'
  <2>1. \A u \in Threads \ {t} : ip'[u] = ip[u] /\ Lines(u)' = Lines(u)
    BY <1>0, <1>3, LinesGrow
  <2>2. \A u \in Threads \ {t} : Turns(u)' = Turns(u) /\ (Printing(u)' <=> Printing(u))
    BY <2>1 DEF Turns, Printing
  <2>3. \A v : Whl(v).op = "while" /\ Whl(v).v = v /\ Put(v).op = "set" /\ Put(v).v = v
    BY DEF Whl, Put
  <2>4. CASE t = "a"
    <3>1. /\ Lines("a")' = Turns("a")' + (IF Printing("a")' THEN 1 ELSE 0)
          /\ \/ /\ Op("a") = Whl(1) /\ Turns("a")' = Turns("a") /\ ~Printing("a") /\ Printing("a")'
             \/ /\ Op("a") = Put(1) /\ Turns("a")' = Turns("a") + 1 /\ Printing("a") /\ ~Printing("a")'
             \/ /\ Op("a").op \notin {"while", "set"} /\ Turns("a")' = Turns("a")
                /\ ~Printing("a") /\ ~Printing("a")'
      <4>1. /\ Program["a"] = Toggle(1, 1) /\ ip["a"] \in DOMAIN Program["a"]
            /\ test' = test /\ ip' = [ip EXCEPT !["a"] = @ + 1]
        BY <1>0, <1>3, <2>4, CvPrograms
      <4>2. Lines("a") = Turns("a") + (IF Printing("a") THEN 1 ELSE 0)
        BY DEF CvTurns
      <4>3. Turns("a") \in Int
        BY <1>1
      <4> QED BY <1>0, <4>1, <4>2, <4>3, TogglesTurn, Zenon
    <3>2. Turns("b")' = Turns("b") /\ (Printing("b")' <=> Printing("b")) /\ Lines("b")' = Lines("b")
      BY <1>0, <2>1, <2>2, <2>4
    <3> QED BY <1>0, <1>1, <1>3, <2>3, <2>4, <3>1, <3>2 DEF CvTurns
  <2>5. CASE t = "b"
    <3>1. /\ Lines("b")' = Turns("b")' + (IF Printing("b")' THEN 1 ELSE 0)
          /\ \/ /\ Op("b") = Whl(0) /\ Turns("b")' = Turns("b") /\ ~Printing("b") /\ Printing("b")'
             \/ /\ Op("b") = Put(0) /\ Turns("b")' = Turns("b") + 1 /\ Printing("b") /\ ~Printing("b")'
             \/ /\ Op("b").op \notin {"while", "set"} /\ Turns("b")' = Turns("b")
                /\ ~Printing("b") /\ ~Printing("b")'
      <4>1. /\ Program["b"] = Toggle(0, 0) /\ ip["b"] \in DOMAIN Program["b"]
            /\ test' = test /\ ip' = [ip EXCEPT !["b"] = @ + 1]
        BY <1>0, <1>3, <2>5, CvPrograms
      <4>2. Lines("b") = Turns("b") + (IF Printing("b") THEN 1 ELSE 0)
        BY DEF CvTurns
      <4>3. Turns("b") \in Int
        BY <1>1
      <4> QED BY <1>0, <4>1, <4>2, <4>3, TogglesTurn, Zenon
    <3>2. Turns("a")' = Turns("a") /\ (Printing("a")' <=> Printing("a")) /\ Lines("a")' = Lines("a")
      BY <1>0, <2>1, <2>2, <2>5
    <3> QED BY <1>0, <1>1, <1>3, <2>3, <2>5, <3>1, <3>2 DEF CvTurns
  <2>6. CASE t \notin {"a", "b"}
    <3>1. Op(t).op # "set"
      BY <1>0, <1>3, <2>6, ProgramOf, CvPrograms DEF Op
    <3>2. \A u \in {"a", "b"} : /\ Turns(u)' = Turns(u) /\ (Printing(u)' <=> Printing(u))
                                /\ Lines(u)' = Lines(u)
      BY <1>0, <2>1, <2>2, <2>6
    <3> QED BY <1>3, <3>1, <3>2 DEF CvTurns
  <2> QED BY <2>4, <2>5, <2>6
<1>4. CASE UNCHANGED vars
  BY <1>2, <1>4 DEF vars
<1>5. ASSUME NEW t \in Threads, Step(t) PROVE CvTurns'
  BY <1>0, <1>2, <1>3, <1>5, SharedEffect
<1> QED BY <1>4, <1>5 DEF Next

LEMMA CvInOrder ==
  ASSUME TheTests, TypeOK, test = "t_l_cv" => CvTurns PROVE Alternate
<1> SUFFICES ASSUME test = "t_l_cv"
             PROVE  Lines("b") <= Lines("a") /\ Lines("a") <= Lines("b") + 1
  BY DEF Alternate
<1>1. Turns("a") \in Nat /\ Turns("b") \in Nat /\ x \in {0, 1}
  BY ProgramOf, Thirds DEF Turns, TypeOK, TheTests, Bit
<1> QED BY <1>1 DEF CvTurns

(* t_sem2 and t_l_cv2, for any number of rounds of its loops, print their  *)
(* lines in the order that they announce, whatever signals are lost.       *)
THEOREM LinesInOrder ==
  ASSUME Threads = TestThreads, Main = "main", Monitors = {"s1", "s2"},
         Programs = Tests, Values = Bit
  PROVE  Spec => []PrintOrder
<1>0. TheTests
  BY DEF TheTests
<1> DEFINE I == test = "t_l_cv" => CvTurns
<1>1. Init => I
  <2> SUFFICES ASSUME Init, test = "t_l_cv" PROVE CvTurns
    OBVIOUS
  <2>1. x = 0 /\ ip["a"] = 1 /\ ip["b"] = 1
    BY <1>0, ProgramOf, TypeInit DEF Init
  <2>2. \A t \in {"a", "b"} : Lines(t) = 0
    <3>1. ASSUME NEW t \in {"a", "b"} PROVE {i \in 1..(ip[t] - 1) : Program[t][i].op = "while"} = {}
      BY <2>1
    <3> QED BY <3>1, FS_EmptySet DEF Lines
  <2>3. (1 - 1) \div 3 = 0 /\ 1 % 3 # 0
    OBVIOUS
  <2> QED BY <2>1, <2>2, <2>3 DEF CvTurns, Turns, Printing
<1>2. LInv /\ I /\ [Next]_vars => I'
  <2> SUFFICES ASSUME LInv, I, [Next]_vars, test' = "t_l_cv" PROVE CvTurns'
    OBVIOUS
  <2>1. test' = test
    BY StepEffect DEF Next, vars, LInv
  <2> QED BY <1>0, <2>1, CvTurnsStep
<1>3. LInv /\ I /\ SemaphoreBound => PrintOrder
  BY <1>0, Sem2InOrder, CvInOrder DEF PrintOrder, LInv
<1> QED BY <1>1, <1>2, <1>3, LInvAlways, SemaphoresAreBounded, PTL DEF Spec

-----------------------------------------------------------------------------
(* Nobody is forgotten *)

(* The threads that a negative counter announces. *)
Waiting(m) ==
  {t \in Threads : /\ Op(t).op = "semDown"
                   /\ \E p \in {"wait", "sleepChan", "asleep"} : On(t, p, m)}

Deficit(n) == IF n < 0 THEN -n ELSE 0

Announced(m) ==
  ~overtaken =>
    Cardinality(Waiting(m)) <= Deficit(ctr[m]) + Cardinality(Signalling(m))

WInv == SInv /\ \A m \in Monitors : Announced(m)

LEMMA WaitingFinite ==
  ASSUME NEW m
  PROVE  IsFiniteSet(Waiting(m)) /\ Cardinality(Waiting(m)) \in Nat
<1>1. Waiting(m) \subseteq Threads
  BY DEF Waiting
<1> QED
  BY <1>1, UlibAssumption, FS_Subset, FS_CardinalityType DEF UlibAssumption

(* Only a semDown of its own makes a thread wait.                          *)
LEMMA WaitingShrinks ==
  ASSUME NEW t \in Threads, Moves(t), NEW m,
         at'[t] \in {"wait", "sleepChan", "asleep"} =>
           GoesOn(t, at'[t]) /\ (Op(t).op = "semDown" => at[t] \in {"wait", "sleepChan"})
  PROVE  Waiting(m)' \subseteq Waiting(m)
<1> SUFFICES ASSUME NEW u \in Threads, Op(u)'.op = "semDown",
                    NEW p \in {"wait", "sleepChan", "asleep"}, On(u, p, m)'
             PROVE  u \in Waiting(m)
  BY DEF Waiting
<1>1. /\ at'[u] = p /\ Op(u)'.m = m /\ Op(u)'.op \in MonitorCalls \cup {"while"}
      /\ test' = test /\ Others(t)
  BY DEF On, Moves
<1>2. ip'[u] = ip[u]
  BY <1>1 DEF Others, GoesOn
<1>3. Op(u)' = Op(u)
  BY <1>1, <1>2 DEF Op, Program
<1>4. at[u] \in {"wait", "sleepChan", "asleep"}
  BY <1>1, <1>3 DEF Others
<1> QED
  BY <1>1, <1>3, <1>4 DEF Waiting, On, InCall

(* A step that makes nobody wait and signals nobody.                       *)
LEMMA StillAnnounced ==
  ASSUME WInv, NEW m \in Monitors, overtaken => overtaken',
         Waiting(m)' \subseteq Waiting(m), Signalling(m)' = Signalling(m),
         ctr'[m] = ctr[m]
  PROVE  Announced(m)'
<1>1. /\ IsFiniteSet(Waiting(m)) /\ Cardinality(Waiting(m)) \in Nat
      /\ Cardinality(Signalling(m)) \in Nat /\ ctr[m] \in Int
  BY WaitingFinite, SignallingFinite DEF WInv, SInv, LInv, TypeOK
<1>2. IsFiniteSet(Waiting(m)') /\ Cardinality(Waiting(m)') <= Cardinality(Waiting(m))
  BY <1>1, FS_Subset
<1>3. Cardinality(Waiting(m)') \in Nat /\ Deficit(ctr[m]) \in Nat
  BY <1>1, <1>2, FS_CardinalityType DEF Deficit
<1>4. Cardinality(Signalling(m)') = Cardinality(Signalling(m))
  OBVIOUS
<1> QED
  BY <1>1, <1>2, <1>3, <1>4 DEF WInv, Announced

LEMMA CallsAnnounced ==
  ASSUME WInv, NEW t \in Threads, NEW m \in Monitors,
         \/ Lock(t) \/ Unlock(t) \/ WhileEnds(t) \/ Broadcast(t) \/ SetX(t)
         \/ ThreadCreate(t) \/ ThreadJoin(t) \/ SemReturn(t) \/ SemInit(t)
  PROVE  Announced(m)'
<1>1. TypeOK /\ Births /\ SInv
  BY DEF WInv, SInv, LInv
<1>2. InCall(t) /\ Others(t) /\ Returns(t)
  BY <1>1, CallEffect, ThreadCreateEffect
<1>3. test' = test /\ at[t] # "signal" /\ (overtaken => overtaken')
  <2>1. test' = test /\ at[t] # "signal"
    BY DEF Lock, Unlock, WhileEnds, Broadcast, SetX, ThreadCreate, ThreadJoin,
           SemReturn, SemInit, Calls
  <2>2. \/ overtaken' = overtaken
        \/ overtaken' = (overtaken \/ \E u \in Threads : On(u, "sleepChan", Op(t).m))
    BY DEF Lock, Unlock, WhileEnds, Broadcast, SetX, ThreadCreate, ThreadJoin,
           SemReturn, SemInit, NoteOvertaking
  <2>3. overtaken => overtaken'
    BY Zenon, <2>2
  <2> QED
    BY <2>1, <2>3
<1>4. Moves(t)
  BY <1>2, <1>3 DEF Moves
<1>5. at'[t] \in {"client", "exited"}
  BY <1>2 DEF Returns, NextPlace
<1>6. Waiting(m)' \subseteq Waiting(m)
  BY <1>4, <1>5, WaitingShrinks
<1>7. Signalling(m)' = Signalling(m)
  <2>1. t \notin Signalling(m) /\ t \notin Signalling(m)'
    BY <1>3, <1>5 DEF Signalling, On
  <2>2. Signalling(m) \subseteq Threads /\ Signalling(m)' \subseteq Threads
    BY DEF Signalling
  <2> QED
    BY <1>1, <1>2, <1>3, <2>1, <2>2, SignallingStep
<1>8. CASE ctr'[m] = ctr[m]
  BY <1>3, <1>6, <1>7, <1>8, StillAnnounced
<1>9. CASE ctr'[m] # ctr[m]
  <2>1. SemInit(t)
    BY <1>9 DEF Lock, Unlock, WhileEnds, Broadcast, SetX, ThreadCreate, ThreadJoin,
                SemReturn
  <2>2. PICK i : i = ip[t]
    OBVIOUS
  <2>3. Op(t).m = m
    BY <1>1, <1>9, <2>1 DEF SemInit, TypeOK
  <2>4. <<t, i>> \in Sites("semInit", m) /\ i \in Nat
    BY <1>1, <1>2, <2>1, <2>2, <2>3, SitesDef DEF SemInit, Calls, TypeOK, Op
  <2>5. ~InitDone(m)
    BY <2>2, <2>4 DEF InitDone
  <2>6. Waiting(m) = {}
    <3>1. DownsBegun(m) = {}
      BY <2>5, <1>1 DEF SInv, Units
    <3>2. ASSUME NEW u \in Waiting(m) PROVE FALSE
      <4>1. /\ u \in Threads /\ InCall(u) /\ Op(u).op = "semDown" /\ Op(u).m = m
            /\ at[u] \in {"wait", "sleepChan", "asleep"}
        BY <3>2 DEF Waiting, On
      <4>2. ip[u] \in DOMAIN Program[u]
        BY <1>1, <4>1 DEF TypeOK
      <4>3. <<u, ip[u]>> \in Sites("semDown", m)
        BY <4>1, <4>2, SitesDef DEF Op
      <4>4. <<u, ip[u]>> \in DownsBegun(m)
        BY <4>1, <4>3 DEF DownsBegun, Past, DownPlaces
      <4> QED
        BY <3>1, <4>4
    <3> QED
      BY <3>2
  <2>7. Cardinality(Waiting(m)') = 0
    BY <1>6, <2>6, FS_EmptySet
  <2>8. Cardinality(Signalling(m)) \in Nat /\ Cardinality(Signalling(m)') = Cardinality(Signalling(m))
    BY <1>7, SignallingFinite
  <2>9. ctr'[m] \in Int /\ Deficit(ctr'[m]) \in Nat
    <3>1. ctr'[m] = Op(t).v /\ Op(t).v \in Values
      BY <1>1, <1>2, <2>1, <2>3, OpIsOp DEF SemInit, Calls, TypeOK
    <3>2. ctr'[m] \in Nat
      BY <3>1, UlibAssumption DEF UlibAssumption
    <3> QED
      BY <3>2 DEF Deficit
  <2> QED
    BY <2>7, <2>8, <2>9 DEF Announced
<1> QED
  BY <1>8, <1>9

LEMMA CondWaitAnnounced ==
  ASSUME WInv, NEW t \in Threads, NEW m \in Monitors,
         CondWait(t) \/ SleepChan(t) \/ Reacquire(t)
  PROVE  Announced(m)'
<1>1. TypeOK /\ Births /\ Step(t) /\ SInv
  BY DEF WInv, SInv, LInv, Step, Library
<1>2. InCall(t) /\ Others(t) /\ Moves(t)
  BY <1>1, StepEffect DEF Moves
<1>3. /\ test' = test /\ ctr' = ctr /\ overtaken' = overtaken
      /\ at[t] # "signal"
  BY <1>1 DEF CondWait, SleepChan, Reacquire, Calls
<1>4. /\ at'[t] # "signal"
      /\ at'[t] \in {"wait", "sleepChan", "asleep"} =>
           GoesOn(t, at'[t]) /\ (Op(t).op = "semDown" => at[t] \in {"wait", "sleepChan"})
  <2>1. CASE CondWait(t)
    <3>1. GoesOn(t, "sleepChan")
      BY <1>1, <2>1, GotoEffect DEF CondWait
    <3>2. Op(t).op = "semDown" => at[t] = "wait"
      BY <1>1, <2>1 DEF CondWait, Calls
    <3> QED
      BY <3>1, <3>2 DEF GoesOn
  <2>2. CASE SleepChan(t)
    <3>1. GoesOn(t, "asleep") /\ at[t] = "sleepChan"
      BY <1>1, <2>2, GotoEffect DEF SleepChan
    <3> QED
      BY <3>1 DEF GoesOn
  <2>3. CASE Reacquire(t)
    <3>1. at'[t] \in {"release", "client", "exited"}
      <4>1. Op(t).op \in {"semDown", "while", "condWait"}
        BY <1>1, <2>3 DEF Reacquire, TypeOK, OpsAt
      <4>2. CASE Op(t).op = "semDown"
        <5>1. Goto(t, "release")
          BY <2>3, <4>2 DEF Reacquire
        <5> QED
          BY <1>1, <5>1, GotoEffect DEF GoesOn
      <4>3. CASE Op(t).op = "while"
        <5>1. Goto(t, "client")
          BY <2>3, <4>3 DEF Reacquire
        <5> QED
          BY <1>1, <5>1, GotoEffect DEF GoesOn
      <4>4. CASE Op(t).op = "condWait"
        <5>1. Resume(t, {})
          BY <2>3, <4>4 DEF Reacquire, Return
        <5> QED
          BY <1>1, <5>1, ResumeEffect DEF Returns, NextPlace
      <4> QED
        BY <4>1, <4>2, <4>3, <4>4
    <3> QED
      BY <3>1
  <2> QED
    BY <2>1, <2>2, <2>3
<1>5. Waiting(m)' \subseteq Waiting(m)
  BY <1>2, <1>4, WaitingShrinks
<1>6. Signalling(m)' = Signalling(m)
  <2>1. t \notin Signalling(m) /\ t \notin Signalling(m)'
    BY <1>3, <1>4 DEF Signalling, On
  <2>2. Signalling(m) \subseteq Threads /\ Signalling(m)' \subseteq Threads
    BY DEF Signalling
  <2> QED
    BY <1>1, <1>2, <1>3, <2>1, <2>2, SignallingStep
<1> QED
  BY <1>3, <1>5, <1>6, StillAnnounced

(* What semDown and semUp do: the counter, the waiting and the signals     *)
(* change together.                                                        *)
LEMMA SemAnnounced ==
  ASSUME WInv, NEW t \in Threads, NEW m \in Monitors, SemDown(t) \/ SemUp(t)
  PROVE  Announced(m)'
<1>1. TypeOK /\ Births /\ Step(t) /\ SInv /\ LInv
  BY DEF WInv, SInv, LInv, Step, Library
<1>2. /\ test' = test /\ at[t] = "client" /\ InCall(t)
      /\ Op(t).op \in {"semDown", "semUp"} /\ overtaken' = overtaken
  BY DEF SemDown, SemUp, Calls, InCall
<1>3. Others(t) /\ Moves(t)
  BY <1>1, StepEffect DEF Moves
<1>4. PICK l \in Monitors : l = Op(t).m
  BY <1>1, <1>2, OpIsOp DEF MonitorCalls
<1>5. PICK place \in {"wait", "release", "signal"} :
        /\ GoesOn(t, place)
        /\ \/ SemDown(t) /\ ctr' = [ctr EXCEPT ![l] = ctr[l] - 1]
              /\ place = (IF MustWait(ctr[l] - 1) THEN "wait" ELSE "release")
           \/ SemUp(t) /\ ctr' = [ctr EXCEPT ![l] = ctr[l] + 1] /\ place = "signal"
  <2>1. CASE SemDown(t)
    BY <1>1, <1>4, <2>1, GotoEffect DEF SemDown
  <2>2. CASE SemUp(t)
    BY <1>1, <1>4, <2>2, GotoEffect DEF SemUp
  <2> QED
    BY <2>1, <2>2
<1>6. Op(t)' = Op(t) /\ at'[t] = place
  BY <1>2, <1>5 DEF Op, Program, GoesOn
<1>7. \A u \in Threads \ {t} : u \in Signalling(m)' <=> u \in Signalling(m)
  BY <1>1, <1>2, <1>3, SignallingStep
<1>8. /\ Signalling(m) \subseteq Threads /\ Signalling(m)' \subseteq Threads
      /\ t \notin Signalling(m)
      /\ t \in Signalling(m)' <=> place = "signal" /\ l = m
  <2>1. t \in Signalling(m)' <=> place = "signal" /\ l = m
    <3>1. Op(t).op \in MonitorCalls /\ InCall(t)'
      BY <1>2, <1>6 DEF MonitorCalls, InCall
    <3> QED
      BY <1>4, <1>6, <3>1 DEF Signalling, On
  <2> QED
    BY <1>2, <2>1 DEF Signalling, On
<1>9. Waiting(m)' \subseteq Waiting(m) \cup {t}
  <2> SUFFICES ASSUME NEW u \in Threads \ {t}, u \in Waiting(m)'
               PROVE  u \in Waiting(m)
    BY DEF Waiting
  <2>1. ip'[u] = ip[u] /\ Op(u)' = Op(u)
    BY <1>2, <1>3 DEF Others, Op, Program
  <2>2. at'[u] \in {"wait", "sleepChan", "asleep"} /\ InCall(u)
    BY <1>3 DEF Waiting, On, Others, InCall
  <2>3. at'[u] = at[u]
    BY <1>3, <2>2 DEF Others
  <2> QED
    BY <2>1, <2>2, <2>3 DEF Waiting, On
<1>10. place # "wait" \/ l # m => Waiting(m)' \subseteq Waiting(m)
  <2>1. t \in Waiting(m)' => place = "wait" /\ l = m
    BY <1>4, <1>5, <1>6 DEF Waiting, On
  <2> QED
    BY <1>9, <2>1
<1>11. CASE l # m
  <2>1. Signalling(m)' = Signalling(m)
    BY <1>7, <1>8, <1>11
  <2>2. ctr'[m] = ctr[m]
    BY <1>1, <1>5, <1>11 DEF TypeOK
  <2> QED
    BY <1>2, <1>10, <1>11, <2>1, <2>2, StillAnnounced
<1>12. CASE l = m
  <2>1. /\ IsFiniteSet(Waiting(m)) /\ Cardinality(Waiting(m)) \in Nat
        /\ IsFiniteSet(Signalling(m)) /\ Cardinality(Signalling(m)) \in Nat
        /\ ctr[m] \in Int /\ Cardinality(Waiting(m)') \in Nat
    BY <1>1, WaitingFinite, SignallingFinite, <1>9, FS_AddElement, FS_Subset,
       FS_CardinalityType DEF TypeOK
  <2>2. ~overtaken => Cardinality(Waiting(m)) <= Deficit(ctr[m]) + Cardinality(Signalling(m))
    BY DEF WInv, Announced
  <2>3. CASE place = "wait"
    <3>1. ctr'[m] = ctr[m] - 1 /\ ctr[m] - 1 < 0
      BY <1>1, <1>5, <1>12, <2>1, <2>3 DEF MustWait, TypeOK
    <3>2. Cardinality(Waiting(m)') <= Cardinality(Waiting(m)) + 1
      <4>1. /\ IsFiniteSet(Waiting(m) \cup {t})
            /\ Cardinality(Waiting(m) \cup {t}) \in
                 {Cardinality(Waiting(m)), Cardinality(Waiting(m)) + 1}
        BY <2>1, FS_AddElement
      <4>2. Cardinality(Waiting(m)') <= Cardinality(Waiting(m) \cup {t})
        BY <1>9, <4>1, FS_Subset
      <4> QED
        BY <2>1, <4>1, <4>2
    <3>3. Signalling(m)' = Signalling(m)
      BY <1>7, <1>8, <2>3
    <3>4. Cardinality(Signalling(m)') = Cardinality(Signalling(m))
      BY <3>3
    <3>5. ~overtaken => Cardinality(Waiting(m)') <= Deficit(ctr'[m]) + Cardinality(Signalling(m)')
      BY <2>1, <2>2, <3>1, <3>2, <3>4 DEF Deficit
    <3> QED
      BY <1>2, <3>5 DEF Announced
  <2>4. Cardinality(Waiting(m)') <= Cardinality(Waiting(m)) \/ place = "wait"
    BY <1>10, <2>1, FS_Subset
  <2>5. CASE place = "release"
    <3>1. ctr'[m] = ctr[m] - 1 /\ ~(ctr[m] - 1 < 0)
      BY <1>1, <1>5, <1>12, <2>1, <2>5 DEF MustWait, TypeOK
    <3>2. Signalling(m)' = Signalling(m)
      BY <1>7, <1>8, <2>5
    <3>3. Cardinality(Signalling(m)') = Cardinality(Signalling(m))
      BY <3>2
    <3>4. ~overtaken => Cardinality(Waiting(m)') <= Deficit(ctr'[m]) + Cardinality(Signalling(m)')
      BY <2>1, <2>2, <2>4, <2>5, <3>1, <3>3 DEF Deficit
    <3> QED
      BY <1>2, <3>4 DEF Announced
  <2>6. CASE place = "signal"
    <3>1. ctr'[m] = ctr[m] + 1
      BY <1>1, <1>5, <1>12, <2>6 DEF TypeOK
    <3>2. Signalling(m)' = Signalling(m) \cup {t} /\ t \notin Signalling(m)
      BY <1>7, <1>8, <1>12, <2>6
    <3>3. Cardinality(Signalling(m)') = Cardinality(Signalling(m)) + 1
      BY <2>1, <3>2, FS_AddElement
    <3>4. ~overtaken => Cardinality(Waiting(m)') <= Deficit(ctr'[m]) + Cardinality(Signalling(m)')
      BY <2>1, <2>2, <2>4, <2>6, <3>1, <3>3 DEF Deficit
    <3> QED
      BY <1>2, <3>4 DEF Announced
  <2> QED
    BY <1>5, <2>3, <2>5, <2>6
<1> QED
  BY <1>11, <1>12

(* A signal wakes one of those who wait, unless nobody does or all of them *)
(* are overtaken before they sleep.                                        *)
LEMMA SignalAnnounced ==
  ASSUME WInv, NEW t \in Threads, NEW m \in Monitors, Signal(t)
  PROVE  Announced(m)'
<1>1. TypeOK /\ Births /\ LInv
  BY DEF WInv, SInv, LInv
<1>2. /\ test' = test /\ ctr' = ctr /\ at[t] = "signal" /\ InCall(t)
      /\ Op(t).op = "semUp"
  BY <1>1 DEF Signal, TypeOK, OpsAt
<1>3. Others(t) /\ GoesOn(t, "release")
  BY <1>1, SignalEffect
<1>4. Moves(t)
  BY <1>2, <1>3 DEF Moves
<1>5. Waiting(m)' \subseteq Waiting(m)
  <2>1. at'[t] \notin {"wait", "sleepChan", "asleep"}
    BY <1>3 DEF GoesOn
  <2> QED
    BY <1>4, <2>1, WaitingShrinks
<1>6. /\ overtaken => overtaken'
      /\ ~overtaken' => \A u \in Threads : ~On(u, "sleepChan", Op(t).m)
  <2>1. overtaken' = (overtaken \/ \E u \in Threads : On(u, "sleepChan", Op(t).m))
    BY DEF Signal, NoteOvertaking
  <2> QED
    BY Zenon, <2>1
<1>7. \A u \in Threads \ {t} : u \in Signalling(m)' <=> u \in Signalling(m)
  BY <1>1, <1>2, <1>3, SignallingStep
<1>8. /\ Signalling(m) \subseteq Threads /\ Signalling(m)' \subseteq Threads
      /\ t \notin Signalling(m)'
  BY <1>3 DEF Signalling, On, GoesOn
<1>9. CASE Op(t).m # m
  <2>1. t \notin Signalling(m)
    BY <1>9 DEF Signalling, On
  <2>2. Signalling(m)' = Signalling(m)
    BY <1>7, <1>8, <2>1
  <2> QED
    BY <1>2, <1>5, <1>6, <2>2, StillAnnounced
<1>10. CASE Op(t).m = m
  <2>1. t \in Signalling(m) /\ t \in Holders(m)
    BY <1>2, <1>10 DEF Signalling, Holders, On, MonitorCalls
  <2>2. Signalling(m)' = Signalling(m) \ {t}
    BY <1>7, <1>8
  <2>3. /\ IsFiniteSet(Waiting(m)) /\ Cardinality(Waiting(m)) \in Nat
        /\ IsFiniteSet(Signalling(m)) /\ Cardinality(Signalling(m)) \in Nat
        /\ ctr[m] \in Int
    BY <1>1, WaitingFinite, SignallingFinite DEF TypeOK
  <2>4. Cardinality(Signalling(m)') = Cardinality(Signalling(m)) - 1
    BY <2>1, <2>2, <2>3, FS_RemoveElement
  <2>5. PICK W \in OneSleeper(m) :
          at' = [u \in Threads |-> IF u = t THEN "release"
                                   ELSE IF u \in W THEN "awake" ELSE at[u]]
    BY <1>10 DEF Signal
  <2>6. IsFiniteSet(Waiting(m)') /\ Cardinality(Waiting(m)') <= Cardinality(Waiting(m))
    BY <1>5, <2>3, FS_Subset
  <2>7. Cardinality(Waiting(m)') \in Nat /\ Deficit(ctr[m]) \in Nat
    BY <2>3, <2>6, FS_CardinalityType DEF Deficit
  <2>8. Cardinality(Signalling(m)) >= 1
    <3>1. Cardinality(Signalling(m)') \in Nat
      BY SignallingFinite, <2>2, <2>3, FS_Subset, FS_CardinalityType
    <3> QED
      BY <2>3, <2>4, <3>1
  <2>9. CASE Waiting(m) = {}
    <3>1. Cardinality(Waiting(m)) = 0
      BY <2>9, FS_EmptySet
    <3> QED
      BY <1>2, <2>3, <2>4, <2>6, <2>7, <2>8, <3>1 DEF Announced
  <2>10. CASE Waiting(m) # {} /\ ~overtaken'
    <3>1. PICK w \in Waiting(m) : TRUE
      BY <2>10
    <3>2. /\ w \in Threads /\ InCall(w) /\ Op(w).op = "semDown" /\ Op(w).m = m
          /\ at[w] \in {"wait", "sleepChan", "asleep"} /\ On(w, at[w], m)
      BY <3>1 DEF Waiting, On
    <3>3. at[w] = "asleep"
      <4>1. at[w] # "sleepChan"
        BY <1>6, <1>10, <2>10, <3>2
      <4>2. at[w] # "wait"
        <5> SUFFICES ASSUME at[w] = "wait" PROVE FALSE
          OBVIOUS
        <5>1. w \in Holders(m)
          BY <3>2 DEF Holders
        <5>2. w = t
          BY <1>1, <2>1, <5>1 DEF LInv, Exclusive, TypeOK
        <5> QED
          BY <1>2, <5>2
      <4> QED
        BY <3>2, <4>1, <4>2
    <3>4. PICK s \in Sleepers(m) : W = {s}
      <4>1. w \in Sleepers(m)
        BY <3>2, <3>3 DEF Sleepers
      <4> QED
        BY <2>5, <4>1 DEF OneSleeper
    <3>5. /\ s \in Threads /\ InCall(s) /\ Op(s).m = m /\ at[s] = "asleep"
          /\ Op(s).op \in {"semDown", "while", "condWait"}
      BY <1>1, <3>4 DEF Sleepers, On, TypeOK, OpsAt
    <3>6. Op(s).op = "semDown"
      <4>1. ip[s] \in DOMAIN Program[s] /\ ip[w] \in DOMAIN Program[w]
        BY <1>1, <3>2, <3>5 DEF TypeOK
      <4>2. test \in DOMAIN Programs
        BY <1>1 DEF TypeOK
      <4>3. ~(Op(s).op \in {"broadcast", "condWait", "while"})
        BY <3>2, <3>5, <4>1, <4>2, SemaphoreAssumption
           DEF SemaphoreAssumption, Program, Op
      <4> QED
        BY <3>5, <4>3
    <3>7. s \in Waiting(m)
      BY <3>5, <3>6 DEF Waiting, On, MonitorCalls
    <3>8. s \notin Waiting(m)'
      <4>1. at'[s] \notin {"wait", "sleepChan", "asleep"}
        BY <2>5, <3>4, <3>5
      <4> QED
        BY <4>1 DEF Waiting, On
    <3>9. /\ Cardinality(Waiting(m) \ {s}) = Cardinality(Waiting(m)) - 1
          /\ IsFiniteSet(Waiting(m) \ {s})
      BY <2>3, <3>7, FS_RemoveElement
    <3>10. Waiting(m)' \subseteq Waiting(m) \ {s}
      BY <1>5, <3>8
    <3>11. Cardinality(Waiting(m)') <= Cardinality(Waiting(m)) - 1
      BY <3>9, <3>10, FS_Subset
    <3>12. ~overtaken
      BY <1>6, <2>10
    <3>13. Cardinality(Waiting(m)) <= Deficit(ctr[m]) + Cardinality(Signalling(m))
      BY <3>12 DEF WInv, Announced
    <3> QED
      BY <1>2, <2>3, <2>4, <2>7, <3>11, <3>13 DEF Announced
  <2>11. CASE overtaken'
    BY <2>11 DEF Announced
  <2> QED
    BY <2>9, <2>10, <2>11
<1> QED
  BY <1>9, <1>10

(* As long as no signal or broadcast falls between a releaseLock and its   *)
(* sleepChan, those who sleep in a semDown are announced by the counter:   *)
(* no semUp is lost.                                                       *)
THEOREM NobodyIsForgotten == Spec => []NobodyForgotten
<1>1. Init => WInv
  <2> SUFFICES ASSUME Init PROVE WInv
    OBVIOUS
  <2>1. SInv
    BY SInvInit
  <2>2. ASSUME NEW m \in Monitors PROVE Announced(m)
    <3>1. Waiting(m) = {} /\ Signalling(m) = {}
      BY DEF Init, Waiting, Signalling, On
    <3>2. Cardinality({}) = 0 /\ ctr[m] = 0
      BY FS_EmptySet DEF Init
    <3> QED
      BY <3>1, <3>2 DEF Announced, Deficit
  <2> QED
    BY <2>1, <2>2 DEF WInv
<1>2. WInv /\ [Next]_vars => WInv'
  <2> SUFFICES ASSUME WInv, [Next]_vars PROVE WInv'
    OBVIOUS
  <2>1. SInv'
    BY SInvStep DEF WInv
  <2>2. CASE UNCHANGED vars
    <3>1. ASSUME NEW m \in Monitors PROVE Announced(m)'
      <4>1. Waiting(m)' = Waiting(m) /\ Signalling(m)' = Signalling(m)
        BY <2>2 DEF vars, Waiting, Signalling, On, InCall, Op, Program
      <4>2. ctr' = ctr /\ overtaken' = overtaken
        BY <2>2 DEF vars
      <4> QED
        BY <4>1, <4>2, StillAnnounced
    <3> QED
      BY <2>1, <3>1 DEF WInv
  <2>3. ASSUME NEW t \in Threads, Step(t) PROVE WInv'
    <3>1. ASSUME NEW m \in Monitors PROVE Announced(m)'
      BY <2>3, CallsAnnounced, CondWaitAnnounced, SemAnnounced, SignalAnnounced
         DEF Step, Library
    <3> QED
      BY <2>1, <3>1 DEF WInv
  <2> QED
    BY <2>2, <2>3 DEF Next
<1>3. WInv => NobodyForgotten
  <2> SUFFICES ASSUME WInv, ~overtaken, NEW m \in Monitors
               PROVE  LET threadsAt(places) ==
                            {t \in Threads : \E p \in places : On(t, p, m)}
                          waiting == {t \in threadsAt({"wait", "sleepChan", "asleep"}) :
                                        Op(t).op = "semDown"}
                          pending == threadsAt({"signal"})
                      IN  Cardinality(waiting) <= (IF ctr[m] < 0 THEN -ctr[m] ELSE 0)
                                                    + Cardinality(pending)
    BY DEF NobodyForgotten
  <2>1. {t \in {u \in Threads : \E p \in {"wait", "sleepChan", "asleep"} : On(u, p, m)} :
           Op(t).op = "semDown"} = Waiting(m)
    BY DEF Waiting
  <2>2. {t \in Threads : \E p \in {"signal"} : On(t, p, m)} = Signalling(m)
    BY DEF Signalling
  <2>3. Cardinality(Waiting(m)) <= Deficit(ctr[m]) + Cardinality(Signalling(m))
    BY DEF WInv, Announced
  <2> QED
    BY <2>1, <2>2, <2>3 DEF Deficit
<1> QED
  BY <1>1, <1>2, <1>3, PTL DEF Spec

-----------------------------------------------------------------------------
(* The barrier opens only when its group is complete, for groups of every  *)
(* size.                                                                   *)

(* The barrier is open when somebody was woken by the last one or is       *)
(* through; everybody has come then.                                       *)
Open == \E p \in Procs : pc[p] \in {"awake", "clear"}

CountInv ==
  /\ BTypeOK
  /\ CountsInside
  /\ tot_num = Cardinality(group)
  /\ \A p \in Procs : pc[p] # "outside" => p \in group
  /\ Open => \A p \in group : pc[p] # "outside"

LEMMA CountInit == BInit => CountInv
<1> SUFFICES ASSUME BInit PROVE CountInv
  OBVIOUS
<1>1. BInside = {}
  BY DEF BInit, BInside, At
<1>2. Cardinality({}) = 0
  BY FS_EmptySet
<1> QED
  BY <1>1, <1>2 DEF BInit, CountInv, BTypeOK, CountsInside, Open, BPlaces

(* The processes inside are members of the group, and finitely many. *)
LEMMA InsideFinite ==
  ASSUME CountInv
  PROVE  /\ IsFiniteSet(group) /\ Cardinality(group) \in Nat
         /\ BInside \subseteq group
         /\ IsFiniteSet(BInside) /\ Cardinality(BInside) \in Nat
         /\ Cardinality(BInside) <= Cardinality(group)
         /\ Cardinality(BInside) = Cardinality(group) => BInside = group
<1>1. group \subseteq Procs /\ BInside \subseteq group
  BY DEF CountInv, BTypeOK, BInside, At
<1>2. IsFiniteSet(group)
  BY <1>1, FS_Subset, BarrierAssumption DEF BarrierAssumption
<1> QED
  BY <1>1, <1>2, FS_Subset, FS_CardinalityType

(* When the test of barrier_check finds the caller to be the last one, all *)
(* the others of the group are inside.                                     *)
LEMMA LastOne ==
  ASSUME CountInv, NEW p \in group, pc[p] = "outside", ~MustSleep(cur_num + 1)
  PROVE  BInside \cup {p} = group
<1> DEFINE S == BInside \cup {p}
<1>1. p \notin BInside /\ S \subseteq group
  BY InsideFinite DEF BInside, At
<1>2. Cardinality(S) = cur_num + 1
  BY <1>1, InsideFinite, FS_AddElement DEF CountInv, CountsInside
<1>3. Cardinality(S) >= Cardinality(group)
  BY <1>2, InsideFinite DEF MustSleep, CountInv, BTypeOK
<1>4. Cardinality(S) <= Cardinality(group)
      /\ (Cardinality(S) = Cardinality(group) => S = group)
  BY <1>1, InsideFinite, FS_Subset
<1>5. Cardinality(S) \in Nat
  BY <1>2 DEF CountInv, BTypeOK
<1> QED
  BY <1>3, <1>4, <1>5, InsideFinite

LEMMA CheckSleeps ==
  ASSUME CountInv, NEW p \in Procs, barrier_check(p), MustSleep(cur_num + 1)
  PROVE  CountInv'
<1>1. /\ p \in group /\ pc[p] = "outside"
      /\ cur_num' = cur_num + 1
      /\ pc' = [pc EXCEPT ![p] = "asleep"]
      /\ UNCHANGED <<tot_num, group, uses>>
  BY DEF barrier_check
<1>2. BInside' = BInside \cup {p} /\ p \notin BInside
  BY <1>1 DEF BInside, At, CountInv, BTypeOK
<1>3. Cardinality(BInside') = cur_num + 1
  BY <1>2, InsideFinite, FS_AddElement DEF CountInv, CountsInside
<1>4. BTypeOK'
  BY <1>1 DEF CountInv, BTypeOK, BPlaces
<1> QED
  BY <1>1, <1>3, <1>4 DEF CountInv, CountsInside, BTypeOK, Open

LEMMA CheckOpens ==
  ASSUME CountInv, NEW p \in Procs, barrier_check(p), ~MustSleep(cur_num + 1)
  PROVE  CountInv'
<1>1. /\ p \in group /\ pc[p] = "outside"
      /\ pc' = [q \in Procs |-> IF q = p THEN "clear"
                                ELSE IF q \in At("asleep") THEN "awake" ELSE pc[q]]
      /\ cur_num' = cur_num
      /\ UNCHANGED <<tot_num, group, uses>>
  BY DEF barrier_check, AllOf, InAndOut, CountInv, BTypeOK
<1>2. BInside' = BInside
  BY <1>1 DEF BInside, At, CountInv, BTypeOK
<1>3. \A q \in group : pc'[q] # "outside"
  BY <1>1, LastOne DEF BInside, At, CountInv, BTypeOK
<1>4. BTypeOK'
  BY <1>1 DEF CountInv, BTypeOK, BPlaces
<1> QED
  BY <1>1, <1>2, <1>3, <1>4 DEF CountInv, CountsInside, BTypeOK, At

LEMMA LeaveKeeps ==
  ASSUME CountInv, NEW p \in Procs, Leave(p)
  PROVE  CountInv'
<1>1. BInside' = BInside \ {p} /\ p \in BInside
  BY DEF Leave, BInside, At, CountInv, BTypeOK
<1>2. Cardinality(BInside') = cur_num - 1
  BY <1>1, InsideFinite, FS_RemoveElement DEF CountInv, CountsInside
<1>3. Cardinality(BInside') \in Nat
  BY <1>1, InsideFinite, FS_RemoveElement, FS_CardinalityType
<1>4. cur_num' = cur_num - 1 /\ UNCHANGED <<tot_num, group, uses>>
  BY DEF Leave, CountedOut
<1>5. BTypeOK'
  BY <1>2, <1>3, <1>4 DEF Leave, CountInv, BTypeOK, BPlaces
<1>6. \A q \in Procs : pc'[q] # "outside" <=> pc[q] # "outside"
  BY DEF Leave, CountInv, BTypeOK
<1>7. Open' => Open
  BY DEF Leave, Open, CountInv, BTypeOK
<1> QED
  BY <1>2, <1>4, <1>5, <1>6, <1>7 DEF CountInv, CountsInside, BTypeOK

LEMMA KillKeeps ==
  ASSUME CountInv, NEW p \in Procs, Kill(p)
  PROVE  CountInv'
<1>1. BInside' = BInside
  BY DEF Kill, BInside, At, CountInv, BTypeOK
<1> QED
  BY <1>1 DEF Kill, CountInv, CountsInside, BTypeOK, Open, BPlaces

LEMMA InitKeeps ==
  ASSUME CountInv, NEW G \in (SUBSET Procs) \ {{}}, barrier_init(G)
  PROVE  CountInv'
<1>1. BInside' = {}
  BY DEF barrier_init, BInside, At
<1>2. IsFiniteSet(G)
  BY FS_Subset, BarrierAssumption DEF BarrierAssumption
<1> QED
  BY <1>1, <1>2, FS_EmptySet, FS_CardinalityType
     DEF barrier_init, CountInv, CountsInside, BTypeOK, Open, BPlaces

(* The count of barrier.c is the number of processes inside, whatever the  *)
(* order in which they come, are woken, are killed and leave; and when one *)
(* is let through, nobody of the group is outside.                         *)
THEOREM Counts == BSpec => []CountInv
<1>1. CountInv /\ [BNext]_bvars => CountInv'
  <2> SUFFICES ASSUME CountInv, [BNext]_bvars PROVE CountInv'
    OBVIOUS
  <2>1. CASE UNCHANGED bvars
    BY <2>1 DEF bvars, CountInv, CountsInside, BTypeOK, Open, BInside, At
  <2>2. ASSUME NEW G \in (SUBSET Procs) \ {{}}, barrier_init(G) PROVE CountInv'
    BY <2>2, InitKeeps
  <2>3. ASSUME NEW p \in Procs, barrier_check(p) PROVE CountInv'
    BY <2>3, CheckSleeps, CheckOpens
  <2>4. ASSUME NEW p \in Procs, Leave(p) PROVE CountInv'
    BY <2>4, LeaveKeeps
  <2>5. ASSUME NEW p \in Procs, Kill(p) PROVE CountInv'
    BY <2>5, KillKeeps
  <2> QED
    BY <2>1, <2>2, <2>3, <2>4, <2>5 DEF BNext
<1> QED
  BY <1>1, CountInit, PTL DEF BSpec

(* cur_num counts the processes inside the barrier, also when one that     *)
(* waits is killed and leaves before the others have come.                 *)
THEOREM CountsProcesses == BSpec => []BInvariants
<1>1. CountInv => BInvariants
  BY DEF CountInv, BInvariants
<1> QED
  BY <1>1, Counts, PTL

-----------------------------------------------------------------------------
(* Refinement *)

LEMMA InitRefines == BInit => B!Init
  BY DEF BInit, B!Init, come, through

LEMMA CheckRefines ==
  ASSUME CountInv, NEW p \in Procs, barrier_check(p)
  PROVE  B!Come(p) \/ B!ComeAndLeave(p)
<1>1. CASE MustSleep(cur_num + 1)
  <2>1. /\ p \in group \ come
        /\ pc' = [pc EXCEPT ![p] = "asleep"]
        /\ group' = group
    BY <1>1 DEF barrier_check, come
  <2>2. come' = come \cup {p} /\ through' = through
    BY <2>1 DEF come, through, CountInv, BTypeOK
  <2> QED
    BY <2>1, <2>2 DEF B!Come
<1>2. CASE ~MustSleep(cur_num + 1)
  <2>1. /\ p \in group \ come
        /\ pc' = [q \in Procs |-> IF q = p THEN "clear"
                                  ELSE IF q \in At("asleep") THEN "awake" ELSE pc[q]]
        /\ group' = group
    BY <1>2 DEF barrier_check, AllOf, come
  <2>2. come' = come \cup {p} /\ through' = through \cup {p}
    BY <2>1 DEF come, through, At, CountInv, BTypeOK
  <2>3. come' = group'
    BY <1>2, <2>1, <2>2, LastOne DEF come, BInside, At, CountInv, BTypeOK
  <2> QED
    BY <2>1, <2>2, <2>3 DEF B!ComeAndLeave
<1> QED
  BY <1>1, <1>2

LEMMA LeaveRefines ==
  ASSUME CountInv, NEW p \in Procs, Leave(p)
  PROVE  B!Leave(p) \/ UNCHANGED <<group, come, through>>
<1>0. group' = group /\ come' = come
  BY DEF Leave, come, CountInv, BTypeOK
<1>1. CASE pc[p] = "awake"
  <2>1. p \in group /\ come = group
    BY <1>1 DEF CountInv, Open, come
  <2>2. pc' = [pc EXCEPT ![p] = "clear"]
    BY <1>1 DEF Leave
  <2>3. through' = through \cup {p}
    BY <1>0, <2>1, <2>2 DEF through, CountInv, BTypeOK
  <2> QED
    BY <1>0, <2>1, <2>3 DEF B!Leave
<1>2. CASE pc[p] = "killed"
  BY <1>0, <1>2 DEF Leave, through, CountInv, BTypeOK
<1> QED
  BY <1>1, <1>2 DEF Leave

LEMMA StepRefines ==
  ASSUME CountInv, [BNext]_bvars
  PROVE  [B!Next]_<<group, come, through>>
<1>1. CASE UNCHANGED bvars
  BY <1>1 DEF bvars, come, through
<1>2. ASSUME NEW G \in (SUBSET Procs) \ {{}}, barrier_init(G) PROVE B!Start
  BY <1>2 DEF barrier_init, B!Start, come, through, At
<1>3. ASSUME NEW p \in Procs, barrier_check(p) PROVE B!Next
  BY <1>3, CheckRefines DEF B!Next
<1>4. ASSUME NEW p \in Procs, Leave(p)
      PROVE  [B!Next]_<<group, come, through>>
  BY <1>4, LeaveRefines DEF B!Next
<1>5. ASSUME NEW p \in Procs, Kill(p) PROVE UNCHANGED <<group, come, through>>
  BY <1>5 DEF Kill, come, through, CountInv, BTypeOK
<1> QED
  BY <1>1, <1>2, <1>3, <1>4, <1>5 DEF BNext, B!Next

(* barrier.c implements the abstract barrier: nobody leaves before all of  *)
(* the group have come.                                                    *)
THEOREM Refines == BSpec => Abstract
  BY InitRefines, StepRefines, Counts, PTL DEF BSpec, Abstract, B!Spec
=============================================================================
