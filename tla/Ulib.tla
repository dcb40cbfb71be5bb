-------------------------------- MODULE Ulib ---------------------------------
(***************************************************************************)
(* The user level synchronisation of xv6-threads (ulib.c): spin locks,     *)
(* condition variables on the kernel's channels, and semaphores made of a  *)
(* counter, a lock and a condition variable.                               *)
(*                                                                         *)
(* A monitor is a lock with its condition variable; a semaphore is a       *)
(* monitor with a counter.  The threads run programs, sequences of calls   *)
(* of the library taken from the tests.  The kernel appears as what the    *)
(* channel calls do to the threads: sleepChan puts the caller to sleep,    *)
(* sigChan wakes every sleeper of the channel and sigOneChan one of them.  *)
(* The lock, condition variable or semaphore of a call is initiated, so    *)
(* the early returns of the library for others are not taken.              *)
(***************************************************************************)
EXTENDS Integers, Sequences, FiniteSets

CONSTANTS
  Threads,
  Main,       (* the thread the program starts with                         *)
  Monitors,
  Programs,   (* for each test, the calls of each thread, in order          *)
  Values      (* the values of the variable a program shares                *)

MonitorCalls == {"semDown", "semUp", "acquireLock", "releaseLock", "condWait",
                 "broadcast"}
OtherCalls   == {"semInit", "while", "set", "thread_create", "thread_join"}

(* "while" is while(x == v) condWait(&cv, &l), "set" is x = v. *)
Ops == [op : MonitorCalls, m : Monitors]
         \cup [op : {"semInit", "while"}, m : Monitors, v : Values]
         \cup [op : {"set"}, v : Values]
         \cup [op : {"thread_create", "thread_join"}, t : Threads]

ASSUME UlibAssumption ==
  /\ Main \in Threads /\ IsFiniteSet(Threads)
  /\ 0 \in Values /\ Values \subseteq Nat
  /\ \A p \in DOMAIN Programs : /\ Programs[p] \in [Threads -> Seq(Ops)]
                               /\ \A t \in Threads : Programs[p][t] # <<>>

(* Before the i-th of these calls the thread has called acquireLock on m,  *)
(* and not yet releaseLock.                                                *)
Inside(calls, i, m) ==
  \E j \in 1..(i - 1) :
    /\ calls[j] = [op |-> "acquireLock", m |-> m]
    /\ \A k \in (j + 1)..(i - 1) : calls[k] # [op |-> "releaseLock", m |-> m]

(* The calls of a thread release, and wait with, a lock that they have     *)
(* acquired, and keep none at the end.                                     *)
Balanced(calls) ==
  /\ \A i \in DOMAIN calls :
       calls[i].op \in {"releaseLock", "condWait", "while"} =>
         Inside(calls, i, calls[i].m)
  /\ \A m \in Monitors : ~Inside(calls, Len(calls) + 1, m)

(* Main is there from the start, the others are created once at most.      *)
Creates(calls, i, u) ==
  i \in DOMAIN calls /\ calls[i] = [op |-> "thread_create", t |-> u]

ASSUME DisciplineAssumption ==
  \A p \in DOMAIN Programs :
    /\ \A t \in Threads : Balanced(Programs[p][t])
    /\ \A t, u \in Threads : \A i \in DOMAIN Programs[p][t] :
         Creates(Programs[p][t], i, u) =>
           /\ u # Main
           /\ \A s \in Threads : \A j \in DOMAIN Programs[p][s] :
                Creates(Programs[p][s], j, u) => s = t /\ j = i

(* A semaphore is initiated at most once, by main before it creates the    *)
(* threads and before it uses the semaphore, and its condition variable is *)
(* used for nothing else.                                                  *)
ASSUME SemaphoreAssumption ==
  \A p \in DOMAIN Programs : \A t, u \in Threads :
    \A i \in DOMAIN Programs[p][t], j \in DOMAIN Programs[p][u] :
      LET a == Programs[p][t][i]
          b == Programs[p][u][j]
      IN  /\ a.op = "semInit" =>
               /\ t = Main
               /\ u = Main /\ j < i => b.op # "thread_create"
               /\ b.op \in {"semUp", "semDown"} /\ b.m = a.m => u # Main \/ i < j
               /\ b.op = "semInit" /\ b.m = a.m => j = i
          /\ a.op = "semDown" /\ b.op \in {"broadcast", "condWait", "while"} =>
               a.m # b.m

VARIABLES
  test,      (* the program that runs                                       *)
  lockvar,   (* l->lockvar                                                  *)
  ctr,       (* s->ctr                                                      *)
  x,         (* the variable the program shares                             *)
  ip,        (* the call each thread is at                                  *)
  at,        (* where in the library the thread is                          *)
  overtaken  (* history: a signal or broadcast came while another thread    *)
             (* was between its releaseLock and its sleepChan               *)

vars == <<test, lockvar, ctr, x, ip, at, overtaken>>

Program == Programs[test]

(* "client": before its next call.  In a condWait: "wait" before the       *)
(* releaseLock, "sleepChan" after it, "asleep", and "awake" before the     *)
(* acquireLock.  In a semUp or semDown: "signal" before the signal,        *)
(* "release" before the last releaseLock.                                  *)
Places == {"unborn", "client", "wait", "sleepChan", "asleep", "awake",
           "signal", "release", "exited"}

Init ==
  /\ test \in DOMAIN Programs
  /\ lockvar = [m \in Monitors |-> 0]
  /\ ctr = [m \in Monitors |-> 0]
  /\ x = 0
  /\ ip = [t \in Threads |-> 1]
  /\ at = [t \in Threads |-> IF t = Main THEN "client" ELSE "unborn"]
  /\ overtaken = FALSE

-----------------------------------------------------------------------------
InCall(t) == at[t] \notin {"unborn", "exited"}
Op(t) == Program[t][ip[t]]

(* The calls in which a thread can be at a place. *)
OpsAt(place) ==
  CASE place = "client" -> MonitorCalls \cup OtherCalls
    [] place = "wait"   -> {"semDown"}
    [] place \in {"sleepChan", "asleep", "awake"} -> {"semDown", "while", "condWait"}
    [] place = "signal"  -> {"semUp"}
    [] place = "release" -> {"semUp", "semDown"}

TypeOK ==
  /\ test \in DOMAIN Programs
  /\ lockvar \in [Monitors -> {0, 1}]
  /\ ctr \in [Monitors -> Int]
  /\ x \in Values
  /\ ip \in [Threads -> Nat \ {0}]
  /\ at \in [Threads -> Places]
  /\ overtaken \in BOOLEAN
  /\ \A t \in Threads : InCall(t) => /\ ip[t] \in DOMAIN Program[t]
                                     /\ Op(t).op \in OpsAt(at[t])

(* The thread is about to make this call. *)
Calls(t, op) == at[t] = "client" /\ Op(t).op = op

(* The thread is at this place of a call on monitor m. *)
On(t, place, m) ==
  /\ InCall(t) /\ at[t] = place
  /\ Op(t).op \in MonitorCalls \cup {"while"}
  /\ Op(t).m = m

Sleepers(m) == {t \in Threads : On(t, "asleep", m)}

Goto(t, place) == at' = [at EXCEPT ![t] = place] /\ UNCHANGED ip

(* A program that is through ends in thread_exit or exit. *)
NextPlace(t) == IF ip[t] = Len(Program[t]) THEN "exited" ELSE "client"

(* The threads in W wake up and the call of t returns. *)
Resume(t, W) ==
  /\ ip' = [ip EXCEPT ![t] = @ + 1]
  /\ at' = [u \in Threads |->
              IF u = t THEN NextPlace(t)
                       ELSE IF u \in W THEN "awake" ELSE at[u]]

Return(t) == Resume(t, {})

(* xchg has found 0 and left 1: before that the thread spins. *)
AcquireLock(m) == lockvar[m] = 0 /\ lockvar' = [lockvar EXCEPT ![m] = 1]

ReleaseLock(m) == lockvar' = [lockvar EXCEPT ![m] = 0]

(* Mutant: condWait returns without the lock. *)
NoLockAgain(m) == UNCHANGED lockvar
LockAgain(m) == AcquireLock(m)

(* Mutant: releaseLock before sleepChan is forgotten. *)
KeepLock(m) == UNCHANGED lockvar
GiveLock(m) == ReleaseLock(m)

(* What a signal or broadcast on m tells the history. *)
NoteOvertaking(m) ==
  overtaken' = (overtaken \/ \E t \in Threads : On(t, "sleepChan", m))

-----------------------------------------------------------------------------
(* A call of acquireLock or releaseLock by the program. *)
Lock(t) ==
  /\ Calls(t, "acquireLock")
  /\ AcquireLock(Op(t).m)
  /\ Return(t)
  /\ UNCHANGED <<test, ctr, x, overtaken>>

Unlock(t) ==
  /\ Calls(t, "releaseLock")
  /\ ReleaseLock(Op(t).m)
  /\ Return(t)
  /\ UNCHANGED <<test, ctr, x, overtaken>>

(* The condition of a while. *)
Holds(t) == x = Op(t).v

(* condWait releases the lock ... *)
CondWait(t) ==
  /\ \/ Calls(t, "condWait")
     \/ Calls(t, "while") /\ Holds(t)
     \/ InCall(t) /\ at[t] = "wait"
  /\ GiveLock(Op(t).m)
  /\ Goto(t, "sleepChan")
  /\ UNCHANGED <<test, ctr, x, overtaken>>

(* ... sleeps ... *)
SleepChan(t) ==
  /\ InCall(t) /\ at[t] = "sleepChan"
  /\ Goto(t, "asleep")
  /\ UNCHANGED <<test, lockvar, ctr, x, overtaken>>

(* ... and takes the lock again; semDown then releases it, a while looks at*)
(* its condition once more.                                                *)
Reacquire(t) ==
  /\ InCall(t) /\ at[t] = "awake"
  /\ LockAgain(Op(t).m)
  /\ CASE Op(t).op = "semDown"  -> Goto(t, "release")
       [] Op(t).op = "while"    -> Goto(t, "client")
       [] Op(t).op = "condWait" -> Return(t)
  /\ UNCHANGED <<test, ctr, x, overtaken>>

WhileEnds(t) ==
  /\ Calls(t, "while") /\ ~Holds(t)
  /\ Return(t)
  /\ UNCHANGED <<test, lockvar, ctr, x, overtaken>>

Broadcast(t) ==
  /\ Calls(t, "broadcast")
  /\ NoteOvertaking(Op(t).m)
  /\ Resume(t, Sleepers(Op(t).m))
  /\ UNCHANGED <<test, lockvar, ctr, x>>

(* Mutant: semDown lets one thread too many in. *)
WaitsBelow(n) == n < -1
MustWait(n) == n < 0

SemDown(t) ==
  LET m == Op(t).m IN
  /\ Calls(t, "semDown")
  /\ AcquireLock(m)
  /\ ctr' = [ctr EXCEPT ![m] = @ - 1]
  /\ Goto(t, IF MustWait(ctr[m] - 1) THEN "wait" ELSE "release")
  /\ UNCHANGED <<test, x, overtaken>>

SemUp(t) ==
  LET m == Op(t).m IN
  /\ Calls(t, "semUp")
  /\ AcquireLock(m)
  /\ ctr' = [ctr EXCEPT ![m] = @ + 1]
  /\ Goto(t, "signal")
  /\ UNCHANGED <<test, x, overtaken>>

(* Whom signal wakes.  Mutants: everybody; nobody. *)
AllSleepers(m) == {Sleepers(m)}
NoSleeper(m) == {{}}
OneSleeper(m) == IF Sleepers(m) = {} THEN {{}} ELSE {{s} : s \in Sleepers(m)}

(* signal, called by semUp with the lock held. *)
Signal(t) ==
  /\ InCall(t) /\ at[t] = "signal"
  /\ NoteOvertaking(Op(t).m)
  /\ \E W \in OneSleeper(Op(t).m) :
       at' = [u \in Threads |-> IF u = t THEN "release"
                                ELSE IF u \in W THEN "awake" ELSE at[u]]
  /\ UNCHANGED <<test, lockvar, ctr, x, ip>>

(* The last releaseLock of semUp and semDown. *)
SemReturn(t) ==
  /\ InCall(t) /\ at[t] = "release"
  /\ ReleaseLock(Op(t).m)
  /\ Return(t)
  /\ UNCHANGED <<test, ctr, x, overtaken>>

-----------------------------------------------------------------------------
(* The rest of the programs *)

(* Before the semaphore is used: its lock is free already. *)
SemInit(t) ==
  /\ Calls(t, "semInit")
  /\ ctr' = [ctr EXCEPT ![Op(t).m] = Op(t).v]
  /\ Return(t)
  /\ UNCHANGED <<test, lockvar, x, overtaken>>

SetX(t) ==
  /\ Calls(t, "set")
  /\ x' = Op(t).v
  /\ Return(t)
  /\ UNCHANGED <<test, lockvar, ctr, overtaken>>

ThreadCreate(t) ==
  LET u == Op(t).t IN
  /\ Calls(t, "thread_create")
  /\ at' = [at EXCEPT ![t] = NextPlace(t), ![u] = "client"]
  /\ ip' = [ip EXCEPT ![t] = @ + 1]
  /\ UNCHANGED <<test, lockvar, ctr, x, overtaken>>

ThreadJoin(t) ==
  /\ Calls(t, "thread_join")
  /\ at[Op(t).t] = "exited"
  /\ Return(t)
  /\ UNCHANGED <<test, lockvar, ctr, x, overtaken>>

Library(t) ==
  \/ Lock(t) \/ Unlock(t)
  \/ CondWait(t) \/ SleepChan(t) \/ Reacquire(t) \/ WhileEnds(t)
  \/ Broadcast(t) \/ Signal(t)
  \/ SemDown(t) \/ SemUp(t) \/ SemReturn(t)

Step(t) == Library(t) \/ SemInit(t) \/ SetX(t) \/ ThreadCreate(t) \/ ThreadJoin(t)

Terminated == \A t \in Threads : at[t] = "exited"

Next == \E t \in Threads : Step(t)

Spec == Init /\ [][Next]_vars

(* The scheduler runs every thread again and again.  The programs are      *)
(* finite, so nobody keeps a lock busy for ever.                           *)
FairSpec == Spec /\ \A t \in Threads : WF_vars(Step(t))

-----------------------------------------------------------------------------
(* Properties *)

(* The places of the programs that call op on monitor m. *)
Sites(op, m) ==
  UNION {{<<t, i>> : i \in {i \in DOMAIN Program[t] :
                              Program[t][i].op = op /\ Program[t][i].m = m}}
           : t \in Threads}

(* The calls that have come to one of these places, or have returned.      *)
Past(sites, places) ==
  {s \in sites : \/ ip[s[1]] > s[2]
                 \/ ip[s[1]] = s[2] /\ at[s[1]] \in places}

Initial(m) ==
  LET inits == Sites("semInit", m)
  IN  IF inits = {} THEN 0 ELSE LET s == CHOOSE s \in inits : TRUE
                                IN  Program[s[1]][s[2]].v
Ups(m)   == Cardinality(Past(Sites("semUp", m), {"signal", "release"}))
Downs(m) == Cardinality(Past(Sites("semDown", m), {"release"}))

(* No thread passes semDown for which there was neither an initial unit nor*)
(* a semUp: the semaphore of t_sem1, initialised to 1, is a mutual         *)
(* exclusion, whoever is woken and whoever comes in between.               *)
SemaphoreBound == \A m \in Monitors : Downs(m) <= Initial(m) + Ups(m)

(* Inside semUp, semDown and a condWait the thread holds the lock of the   *)
(* call but from the releaseLock of a condWait to its acquireLock.         *)
Holders(m) ==
  {t \in Threads : InCall(t) /\
     \/ \E p \in {"wait", "signal", "release"} : On(t, p, m)
     \/ /\ Inside(Program[t], ip[t], m)
        /\ \A p \in {"sleepChan", "asleep", "awake"} : ~On(t, p, m)}

(* A lock has one holder at a time, also across the release and the        *)
(* acquisition inside condWait.                                            *)
LocksExclude ==
  \A m \in Monitors : Cardinality(Holders(m)) = lockvar[m]

(* What holds in every state. *)
Invariants == TypeOK /\ LocksExclude

(* As long as no thread was overtaken between its releaseLock and its      *)
(* sleepChan, the threads that wait at a semaphore are the ones its        *)
(* negative counter announces, but for a semUp about to signal: no semUp   *)
(* goes unnoticed.                                                         *)
NobodyForgotten ==
  ~overtaken => \A m \in Monitors :
    LET threadsAt(places) == {t \in Threads : \E p \in places : On(t, p, m)}
        waiting == {t \in threadsAt({"wait", "sleepChan", "asleep"}) : Op(t).op = "semDown"}
        pending == threadsAt({"signal"})
    IN  Cardinality(waiting) <= (IF ctr[m] < 0 THEN -ctr[m] ELSE 0)
                                  + Cardinality(pending)

(* Then the program comes to its end, too: every thread is joined. *)
Terminates == <>(Terminated \/ overtaken)

=============================================================================
