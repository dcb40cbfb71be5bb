------------------------------ MODULE ProcTable ------------------------------
(***************************************************************************)
(* The process table of the xv6-threads kernel (proc.c): allocation of     *)
(* slots and pids, fork, kernel threads that share an address space, exit, *)
(* the three ways of waiting, kill, the scheduler, and the sleep channels  *)
(* user programs build their condition variables on.                       *)
(*                                                                         *)
(* ptable.lock: code between acquire(&ptable.lock) and the release, or the *)
(* switch to the scheduler, is one action.  Code that touches the table    *)
(* without the lock (the second half of fork and thread_create, getChannel,*)
(* the scan of sigOneChan) is split at the points where another CPU, or    *)
(* another process after a timer interrupt, can come in between.           *)
(*                                                                         *)
(* An action of a process is executed by the CPU c it is on: cur = cpu[c]  *)
(* is myproc().  A scan that takes the first slot of the table that fits   *)
(* takes any slot that fits here: which slot comes first is an accident of *)
(* the history of allocations.                                             *)
(*                                                                         *)
(* panic() stops the machine.  A call that would panic is not taken here;  *)
(* the invariant NoPanic says that none is ever about to be.               *)
(***************************************************************************)
EXTENDS Naturals, FiniteSets

CONSTANTS
  Slots,       (* the entries of ptable.proc                                *)
  Cpus,
  InitProc,    (* the slot of the first process                             *)
  Nobody,      (* the null pointer                                          *)
  MaxPid,      (* bound: pids and channels stop being handed out above it   *)
  Calls,       (* the system calls the user programs make                   *)
  KillPids,    (* the numbers they pass to kill                             *)
  AllocFails,  (* may kalloc or copyuvm run out of memory?                  *)
  Rules        (* what the user programs are careful about, see below       *)

AllCalls == {"fork", "thread_create", "exit", "wait", "waitpid",
             "thread_join", "kill", "sleepChan", "sigChan", "sigOneChan",
             "getChannel"}

(* "join":   a main thread exits only when its threads have been joined,   *)
(*           and kill is not used on a process that has or creates threads.*)
(* "ids":    getChannel does not overlap another allocation of an id: the  *)
(*           tests create their channels before their first thread.        *)
(* "signal": while one sigOneChan is between its scan and its store, nobody*)
(*           else wakes the process it has found: semUp signals under the  *)
(*           semaphore's lock.                                             *)
(* "pids":   kill is given the pid of a process or thread that has been    *)
(*           created and nobody has reaped, waitpid the pid fork returned. *)
AllRules == {"join", "ids", "signal", "pids"}

ASSUME ProcTableAssumption ==
  /\ InitProc \in Slots
  /\ Nobody \notin Slots \cup Nat
  /\ Slots \cap Nat = {}
  /\ MaxPid \in Nat \ {0}
  /\ Calls \subseteq AllCalls
  /\ KillPids \subseteq Nat
  /\ AllocFails \in BOOLEAN
  /\ Rules \subseteq AllRules

VARIABLES
  state, pid, parent, mainthread, killed, chan,   (* struct proc            *)
  nextpid,
  cpu,        (* c->proc of each CPU, Nobody in the scheduler loop          *)
  pc,         (* where in the kernel the process is; "user" outside of it   *)
  np,         (* its local variable np in fork and thread_create            *)
  ptr,        (* its other local slot pointer                               *)
  num,        (* its local pid or channel number                            *)
  channels,   (* the numbers getChannel has returned                        *)
  victims     (* history: the pids kill was called with                     *)

table  == <<state, pid, parent, mainthread, killed, chan>>
locals == <<np, ptr, num>>
ghosts == <<channels, victims>>
vars   == <<table, nextpid, cpu, pc, locals, ghosts>>

States == {"UNUSED", "EMBRYO", "SLEEPING", "RUNNABLE", "RUNNING", "ZOMBIE"}
PCs    == {"user", "fork", "thread_create", "thread_parent", "wait",
           "waitpid", "thread_join", "sleepChan", "sigOneChan",
           "getChannel", "zombie"}

TypeOK ==
  /\ state \in [Slots -> States]
  /\ pid \in [Slots -> Nat]
  /\ parent \in [Slots -> Slots \cup {Nobody}]
  /\ mainthread \in [Slots -> Slots \cup {Nobody}]
  /\ killed \in [Slots -> BOOLEAN]
  /\ chan \in [Slots -> Slots \cup Nat \cup {Nobody}]
  /\ nextpid \in Nat
  /\ cpu \in [Cpus -> Slots \cup {Nobody}]
  /\ pc \in [Slots -> PCs]
  /\ np \in [Slots -> Slots \cup {Nobody}]
  /\ ptr \in [Slots -> Slots \cup {Nobody}]
  /\ num \in [Slots -> Nat]
  /\ channels \subseteq Nat
  /\ victims \subseteq Nat
  /\ \A s \in Slots :
       /\ pc[s] \in {"fork", "thread_create", "thread_parent"} => np[s] # Nobody
       /\ pc[s] \in {"waitpid", "sigOneChan"} => ptr[s] # Nobody

(* userinit: the first process is ready to run, pid 1. *)
Init ==
  /\ state = [s \in Slots |-> IF s = InitProc THEN "RUNNABLE" ELSE "UNUSED"]
  /\ pid = [s \in Slots |-> IF s = InitProc THEN 1 ELSE 0]
  /\ parent = [s \in Slots |-> Nobody]
  /\ mainthread = [s \in Slots |-> IF s = InitProc THEN s ELSE Nobody]
  /\ killed = [s \in Slots |-> FALSE]
  /\ chan = [s \in Slots |-> Nobody]
  /\ nextpid = 2
  /\ cpu = [c \in Cpus |-> Nobody]
  /\ pc = [s \in Slots |-> "user"]
  /\ np = [s \in Slots |-> Nobody]
  /\ ptr = [s \in Slots |-> Nobody]
  /\ num = [s \in Slots |-> 0]
  /\ channels = {}
  /\ victims = {}

-----------------------------------------------------------------------------
(* Helpers *)

(* f with the value v on the set S. *)
On(f, S, v) == [x \in DOMAIN f |-> IF x \in S THEN v ELSE f[x]]

(* wakeup1(ch) on the states st. *)
Woken(st, ch) == On(st, {s \in Slots : st[s] = "SLEEPING" /\ chan[s] = ch},
                    "RUNNABLE")

Live(s) == state[s] # "UNUSED"

At(c, where) == /\ cpu[c] # Nobody
                /\ pc[cpu[c]] = where

(* System call entry: a killed process exits instead (trap). *)
Call(c, name) == /\ At(c, "user")
                 /\ ~killed[cpu[c]]
                 /\ name \in Calls

GoTo(c, where) == pc' = [pc EXCEPT ![cpu[c]] = where]

(* sched(): the CPU is back in the scheduler loop. *)
Off(c) == cpu' = [cpu EXCEPT ![c] = Nobody]

(* A process that runs sees these rules of the user programs. *)
NoIdInFlight == "ids" \in Rules => \A s \in Slots : pc[s] # "getChannel"
SingleThreaded(s) ==
  /\ \A t \in Slots : Live(t) /\ mainthread[t] = mainthread[s] => t = s
  /\ pc[s] # "thread_create"
NotBeingSignalled(T) ==
  "signal" \in Rules =>
    \A s \in Slots : pc[s] = "sigOneChan" => ptr[s] \notin T

-----------------------------------------------------------------------------
(* Scheduling *)

(* scheduler(): one iteration that finds a process to run. *)
Scheduler(c) ==
  /\ cpu[c] = Nobody
  /\ \E s \in Slots :
       /\ state[s] = "RUNNABLE"
       /\ state' = [state EXCEPT ![s] = "RUNNING"]
       /\ cpu' = [cpu EXCEPT ![c] = s]
  /\ UNCHANGED <<pid, parent, mainthread, killed, chan, nextpid, pc, locals,
                 ghosts>>

(* The timer interrupt calls yield() wherever the process holds no lock,   *)
(* unless it is about to be killed on its way back to user space.          *)
Yield(c) ==
  LET cur == cpu[c] IN
  /\ cur # Nobody
  /\ state[cur] = "RUNNING"
  /\ pc[cur] \in {"user", "fork", "thread_create", "thread_parent",
                  "sigOneChan", "getChannel"}
  /\ pc[cur] = "user" => ~killed[cur]
  /\ state' = [state EXCEPT ![cur] = "RUNNABLE"]
  /\ Off(c)
  /\ UNCHANGED <<pid, parent, mainthread, killed, chan, nextpid, pc, locals,
                 ghosts>>

(* sleep(ch, &ptable.lock): the process gives up its CPU at "where". *)
SleepOn(c, ch, where) ==
  /\ state' = [state EXCEPT ![cpu[c]] = "SLEEPING"]
  /\ chan' = [chan EXCEPT ![cpu[c]] = ch]
  /\ GoTo(c, where)
  /\ Off(c)

(* A system call returns to user space: sleep() has cleared chan, and the  *)
(* frame with its locals is gone.                                          *)
Return(c) ==
  /\ GoTo(c, "user")
  /\ chan' = [chan EXCEPT ![cpu[c]] = Nobody]
  /\ np' = [np EXCEPT ![cpu[c]] = Nobody]
  /\ ptr' = [ptr EXCEPT ![cpu[c]] = Nobody]
  /\ num' = [num EXCEPT ![cpu[c]] = 0]
  /\ UNCHANGED cpu

-----------------------------------------------------------------------------
(* Creating processes and threads *)

(* Mutant: the ++ of nextpid++ is lost. *)
TakeNoId == UNCHANGED nextpid
TakeId   == nextpid' = nextpid + 1

(* allocproc(), called at the start of fork and thread_create: under the   *)
(* lock it takes a free slot and the next pid, whatever else the slot's    *)
(* last user left in it.                                                   *)
AllocProc(c) ==
  /\ \E call \in {"fork", "thread_create"} : Call(c, call) /\ GoTo(c, call)
  /\ NoIdInFlight
  /\ nextpid <= MaxPid
  /\ \E s \in Slots : /\ state[s] = "UNUSED"
                      /\ state' = [state EXCEPT ![s] = "EMBRYO"]
                      /\ pid' = [pid EXCEPT ![s] = nextpid]
                      /\ mainthread' = [mainthread EXCEPT ![s] = s]
                      /\ np' = [np EXCEPT ![cpu[c]] = s]
  /\ TakeId
  /\ UNCHANGED <<parent, killed, chan, cpu, ptr, num, ghosts>>

(* kalloc finds no page for the kernel stack, or copyuvm for the child's   *)
(* memory: the slot is given back, without the lock, its pid still in it.  *)
AllocFailed(c) ==
  LET cur == cpu[c] IN
  /\ AllocFails
  /\ (At(c, "fork") \/ At(c, "thread_create"))
  /\ state' = [state EXCEPT ![np[cur]] = "UNUSED"]
  /\ Return(c)
  /\ UNCHANGED <<pid, parent, mainthread, killed, nextpid, ghosts>>

(* The new process returns from its first trap to user space. *)
Publish(c, mother) ==
  LET cur == cpu[c]  new == np[cur] IN
  /\ state' = [state EXCEPT ![new] = "RUNNABLE"]
  /\ parent' = [parent EXCEPT ![new] = mother]
  /\ pc' = [pc EXCEPT ![cur] = "user", ![new] = "user"]
  /\ np' = [np EXCEPT ![cur] = Nobody]
  /\ ptr' = [ptr EXCEPT ![cur] = Nobody]
  /\ UNCHANGED <<pid, killed, chan, nextpid, cpu, num, ghosts>>

(* fork(), after its allocations. *)
Fork(c) ==
  /\ At(c, "fork")
  /\ Publish(c, cpu[c])
  /\ UNCHANGED mainthread

(* Mutant: a thread created by a thread becomes a group of its own. *)
GroupOfCaller(cur) == cur
Group(cur) == mainthread[cur]

(* thread_create(), without the lock: the thread joins the group of the    *)
(* caller, and curproc->parent is loaded ...                               *)
ThreadCreate(c) ==
  LET cur == cpu[c] IN
  /\ At(c, "thread_create")
  /\ mainthread' = [mainthread EXCEPT ![np[cur]] = Group(cur)]
  /\ ptr' = [ptr EXCEPT ![cur] = parent[cur]]
  /\ GoTo(c, "thread_parent")
  /\ UNCHANGED <<state, pid, parent, killed, chan, nextpid, cpu, np, num,
                 ghosts>>

(* ... and stored in the new thread, which the parent may have outlived.   *)
ThreadStart(c) ==
  /\ At(c, "thread_parent")
  /\ Publish(c, ptr[cpu[c]])
  /\ UNCHANGED mainthread

-----------------------------------------------------------------------------
(* Dying *)

Children(cur) == {s \in Slots : parent[s] = cur}

(* Whom an exiting process wakes: exit() the parent, thread_exit() the     *)
(* main thread.  Mutant: exit wakes as thread_exit does.                   *)
WaiterIsMain(cur) == mainthread[cur]
Waiter(cur) == IF mainthread[cur] = cur THEN parent[cur] ELSE mainthread[cur]

(* Its children are handed over to init.                                   *)
Reparented(cur) == On(parent, Children(cur), InitProc)

(* init is woken if one of them is a zombie already.  Mutant: it is not.   *)
InitSleepsOn(cur) == FALSE
InitMustWake(cur) == \E s \in Children(cur) : state[s] = "ZOMBIE"

(* exit(), or thread_exit() when the process is not a main thread.  A      *)
(* killed process is sent here by trap.                                    *)
Exit(c) ==
  LET cur    == cpu[c]
      woken  == Woken(state, Waiter(cur))
      others == IF InitMustWake(cur) THEN Woken(woken, InitProc) ELSE woken
  IN
  /\ At(c, "user")
  /\ ("exit" \in Calls \/ killed[cur])
  /\ cur # InitProc
  /\ "join" \in Rules =>
       \A s \in Slots \ {cur} : Live(s) => mainthread[s] # cur
  /\ state' = [others EXCEPT ![cur] = "ZOMBIE"]
  /\ parent' = Reparented(cur)
  /\ GoTo(c, "zombie")
  /\ Off(c)
  /\ UNCHANGED <<pid, mainthread, killed, chan, nextpid, locals, ghosts>>

-----------------------------------------------------------------------------
(* Waiting *)

(* Mutant: the slot keeps the mark of a killed process. *)
ClearButKilled(S) ==
  /\ state' = On(state, S, "UNUSED")
  /\ pid' = On(pid, S, 0)
  /\ parent' = On(parent, S, Nobody)
  /\ UNCHANGED killed

(* A slot is given back: the fields wait, waitpid and thread_join reset.   *)
Clear(S) ==
  /\ state' = On(state, S, "UNUSED")
  /\ pid' = On(pid, S, 0)
  /\ parent' = On(parent, S, Nobody)
  /\ killed' = On(killed, S, FALSE)

(* Mutant: a child is collected whatever its state. *)
Anyone(S)  == S
Zombies(S) == {s \in S : state[s] = "ZOMBIE"}

(* What a waiting loop leaves alone whether it returns, reaps or sleeps.   *)
WaitFrame == UNCHANGED <<nextpid, ghosts>>

(* The common end of wait() and thread_join(): none of the candidates is a *)
(* zombie, so fail if there is no candidate or when killed, else sleep.    *)
FailOrSleep(c, candidates, where, n) ==
  LET cur == cpu[c] IN
  /\ Zombies(candidates) = {}
  /\ IF candidates = {} \/ killed[cur]
       THEN Return(c) /\ UNCHANGED state
       ELSE /\ SleepOn(c, cur, where)
            /\ num' = [num EXCEPT ![cur] = n]
            /\ UNCHANGED <<np, ptr>>
  /\ UNCHANGED <<pid, parent, mainthread, killed>>

(* wait(): reap a zombie main thread among the children, with all that is  *)
(* left of its threads.                                                    *)
Wait(c) ==
  LET kids == {s \in Slots : parent[s] = cpu[c] /\ mainthread[s] = s} IN
  /\ (Call(c, "wait") \/ At(c, "wait"))
  /\ \/ \E z \in Zombies(kids) :
          LET group == {z} \cup {s \in Slots : mainthread[s] = z /\ Live(s)} IN
          /\ Clear(group)
          /\ mainthread' = On(mainthread, group, Nobody)
          /\ Return(c)
     \/ FailOrSleep(c, kids, "wait", 0)
  /\ WaitFrame

(* thread_join(n): the same for one thread of the caller's group. *)
ThreadJoin(c, n) ==
  LET cur     == cpu[c]
      threads == {s \in Slots : s # cur /\ mainthread[s] = cur /\ pid[s] = n}
  IN
  /\ \/ Call(c, "thread_join")
     \/ At(c, "thread_join") /\ num[cur] = n
  /\ \/ \E z \in Zombies(threads) :
          /\ Clear({z})
          /\ mainthread' = [mainthread EXCEPT ![z] = Nobody]
          /\ Return(c)
     \/ FailOrSleep(c, threads, "thread_join", n)
  /\ WaitFrame

(* waitpid(n): finds the child once, then waits for its slot to be a       *)
(* zombie, killed or not, and leaves mainthread as it is.                  *)
WaitPid(c, s) ==
  LET cur == cpu[c] IN
  /\ \/ /\ Call(c, "waitpid") /\ parent[s] = cur
        /\ "pids" \in Rules => mainthread[s] = s
     \/ At(c, "waitpid") /\ ptr[cur] = s
  /\ IF Zombies({s}) # {}
       THEN Clear({s}) /\ Return(c)
       ELSE /\ SleepOn(c, cur, "waitpid")
            /\ ptr' = [ptr EXCEPT ![cur] = s]
            /\ UNCHANGED <<pid, parent, killed, np, num>>
  /\ UNCHANGED mainthread
  /\ WaitFrame

(* kill wakes a sleeper and leaves the others in the state they are in.    *)
(* Mutants: it makes everybody runnable; it wakes nobody.                  *)
KillRunsAnyone(s) == "RUNNABLE"
KillWakesNobody(s) == state[s]
AfterKill(s) == IF state[s] = "SLEEPING" THEN "RUNNABLE" ELSE state[s]

(* kill(n): the first slot with that pid, used or not. *)
Kill(c, n) ==
  /\ Call(c, "kill")
  /\ \E s \in Slots :
       /\ pid[s] = n
       /\ "pids" \in Rules => state[s] \notin {"UNUSED", "EMBRYO"}
       /\ "join" \in Rules => SingleThreaded(s)
       /\ NotBeingSignalled({s})
       /\ killed' = [killed EXCEPT ![s] = TRUE]
       /\ state' = [state EXCEPT ![s] = AfterKill(s)]
  /\ victims' = victims \cup {n}
  /\ UNCHANGED <<pid, parent, mainthread, chan, nextpid, cpu, pc, locals,
                 channels>>

-----------------------------------------------------------------------------
(* Channels of user programs *)

(* getChannel() takes an id from the same counter as allocproc, without    *)
(* the lock: nextpid is read ...                                           *)
GetChannel(c) ==
  /\ Call(c, "getChannel")
  /\ NoIdInFlight
  /\ nextpid <= MaxPid
  /\ num' = [num EXCEPT ![cpu[c]] = nextpid]
  /\ GoTo(c, "getChannel")
  /\ UNCHANGED <<table, nextpid, cpu, np, ptr, ghosts>>

(* ... and the value read, plus one, is written back. *)
GotChannel(c) ==
  LET n == num[cpu[c]] IN
  /\ At(c, "getChannel")
  /\ nextpid' = n + 1
  /\ channels' = channels \cup {n}
  /\ Return(c)
  /\ UNCHANGED <<state, pid, parent, mainthread, killed, victims>>

(* The check at the start of sleepChan, sigChan and sigOneChan. *)
IsPid(ch) == \E s \in Slots : Live(s) /\ pid[s] = ch

SleepChan(c) ==
  /\ Call(c, "sleepChan")
  /\ \E ch \in channels : ~IsPid(ch) /\ SleepOn(c, ch, "sleepChan")
  /\ UNCHANGED <<pid, parent, mainthread, killed, nextpid, locals, ghosts>>

SleepChanReturns(c) ==
  /\ At(c, "sleepChan")
  /\ Return(c)
  /\ UNCHANGED <<state, pid, parent, mainthread, killed, nextpid, ghosts>>

(* sigChan(ch) wakes every sleeper.  The lock is released after the check  *)
(* and taken again by wakeup, which does not depend on the check.          *)
SigChan(c) ==
  /\ Call(c, "sigChan")
  /\ \E ch \in channels :
       /\ ~IsPid(ch)
       /\ NotBeingSignalled({s \in Slots : chan[s] = ch})
       /\ state' = Woken(state, ch)
  /\ UNCHANGED <<pid, parent, mainthread, killed, chan, nextpid, cpu, pc,
                 locals, ghosts>>

(* sigOneChan(ch) scans for a sleeper, the lock released: it finds one ... *)
SigOneChan(c) ==
  /\ Call(c, "sigOneChan")
  /\ \E ch \in channels, s \in Slots :
       /\ ~IsPid(ch)
       /\ state[s] = "SLEEPING" /\ chan[s] = ch
       /\ NotBeingSignalled({s})
       /\ ptr' = [ptr EXCEPT ![cpu[c]] = s]
  /\ GoTo(c, "sigOneChan")
  /\ UNCHANGED <<table, nextpid, cpu, np, num, ghosts>>

(* ... and stores RUNNABLE in what it found. *)
SigOneChanStores(c) ==
  /\ At(c, "sigOneChan")
  /\ state' = [state EXCEPT ![ptr[cpu[c]]] = "RUNNABLE"]
  /\ Return(c)
  /\ UNCHANGED <<pid, parent, mainthread, killed, nextpid, ghosts>>

-----------------------------------------------------------------------------
Lifecycle(c) ==
  \/ AllocProc(c) \/ AllocFailed(c) \/ Fork(c)
  \/ ThreadCreate(c) \/ ThreadStart(c)
  \/ Exit(c)

Waiting(c) ==
  \/ Wait(c)
  \/ \E n \in 0..MaxPid : ThreadJoin(c, n)
  \/ \E s \in Slots : WaitPid(c, s)

Signalling(c) ==
  \/ \E n \in KillPids : Kill(c, n)
  \/ GetChannel(c) \/ GotChannel(c) \/  SleepChan(c) \/ SleepChanReturns(c)
  \/ SigChan(c) \/ SigOneChan(c) \/ SigOneChanStores(c)

Next == \E c \in Cpus : \/ Scheduler(c) \/ Yield(c)
                        \/ Lifecycle(c) \/ Waiting(c) \/ Signalling(c)

Spec == Init /\ [][Next]_vars

(* scheduler() goes round the table, so a runnable process is not passed   *)
(* over for ever; a process inside a system call gets through it however   *)
(* often the timer interrupts it; the timer keeps ticking, so a process in  *)
(* user space cannot avoid the next trap; init's program loops on wait.    *)
By(s, A(_)) == \E c \in Cpus : cpu[c] = s /\ A(c)

InKernel(c) == pc[cpu[c]] # "user" /\ (Lifecycle(c) \/ Waiting(c) \/ Signalling(c))

Fairness ==
  /\ \A c \in Cpus : WF_vars(Yield(c))
  /\ \A s \in Slots :
       /\ SF_vars(\E c \in Cpus : Scheduler(c) /\ cpu'[c] = s)
       /\ SF_vars(By(s, InKernel))
       /\ WF_vars(By(s, Exit) /\ killed[s])
  /\ SF_vars(By(InitProc, Wait))

FairSpec == Spec /\ Fairness

-----------------------------------------------------------------------------
(* Properties *)

(* No process runs on two CPUs, and the table's RUNNING entries are exactly*)
(* the ones some CPU executes: the scheduler's store of RUNNING, the states*)
(* written before sched(), and every wakeup agree.                         *)
OneCpuPerProcess ==
  /\ \A c \in Cpus : cpu[c] # Nobody => state[cpu[c]] = "RUNNING"
  /\ \A s \in Slots : state[s] = "RUNNING" => \E c \in Cpus : cpu[c] = s
  /\ \A c, d \in Cpus : cpu[c] = cpu[d] /\ cpu[c] # Nobody => c = d

(* What holds in every state of the table. *)
Invariants == TypeOK /\ OneCpuPerProcess

(* panic("zombie exit"): a process that left through exit() or             *)
(* thread_exit() is never switched to again.                               *)
ZombiesNeverRun == \A c \in Cpus : ~At(c, "zombie")

(* panic("Sleep channel called on a non-userspace channel!"): a number     *)
(* handed out by getChannel is not the pid of a process.                   *)
ChannelsAreNotPids == \A ch \in channels : ~IsPid(ch)

(* panic("init exiting") cannot come from a kill of somebody else.         *)
NoPanic ==
  /\ ZombiesNeverRun
  /\ ChannelsAreNotPids
  /\ ~killed[InitProc]

(* A pid names one entry of the table, in use or not: kill, waitpid and    *)
(* thread_join look for the number and not all of them at the state.       *)
UniquePids ==
  \A s, t \in Slots : pid[s] = pid[t] /\ pid[s] # 0 => s = t

(* A process that sleeps in wait, waitpid or thread_join has nothing to    *)
(* collect: the exit it waits for wakes it, also when init inherits a      *)
(* zombie.                                                                 *)
NoMissedExit ==
  \A p \in Slots : state[p] = "SLEEPING" =>
    /\ pc[p] = "wait" =>
         \A s \in Slots : parent[s] = p /\ mainthread[s] = s =>
                          state[s] # "ZOMBIE"
    /\ pc[p] = "waitpid" => state[ptr[p]] # "ZOMBIE"
    /\ pc[p] = "thread_join" =>
         \A s \in Slots : mainthread[s] = p /\ pid[s] = num[p] =>
                          state[s] # "ZOMBIE"

(* Every process but init has a parent that can still collect it: exit     *)
(* hands the children over before it becomes a zombie.                     *)
ParentCanCollect ==
  \A s \in Slots \ {InitProc} :
    state[s] \notin {"UNUSED", "EMBRYO"} /\ mainthread[s] = s =>
      parent[s] # Nobody /\ state[parent[s]] \notin {"UNUSED", "ZOMBIE"}

(* So the exit of a process reaches the one that is to collect it. *)
ExitsReachParents == NoMissedExit /\ ParentCanCollect

(* A thread's main thread is a main thread and still in the table: the     *)
(* address space the thread runs in belongs to it.                         *)
ThreadsHaveMain ==
  \A s \in Slots : Live(s) =>
    LET m == mainthread[s] IN
    m # Nobody /\ mainthread[m] = m /\ Live(m) /\
      (m # s => state[m] # "ZOMBIE")

(* "Kill the process with the given pid": only processes that a kill named *)
(* are marked.                                                             *)
KillHitsItsTarget ==
  \A s \in Slots : Live(s) /\ killed[s] => pid[s] \in victims

(* An exited process stays a zombie until it is reaped.                    *)
ZombieIsFinal ==
  [][\A s \in Slots : state[s] = "ZOMBIE" =>
       state'[s] \in {"ZOMBIE", "UNUSED"}]_vars

(* A killed process dies: kill wakes it, wait and thread_join give up, and *)
(* trap sends it to exit.  waitpid does not give up: there it may have to  *)
(* wait for a child that nobody has killed.                                *)
KilledDies ==
  \A s \in Slots \ {InitProc} :
    killed[s] ~> \/ state[s] \in {"ZOMBIE", "UNUSED"}
                 \/ pc[s] = "waitpid" /\ ~killed[ptr[s]]

(* init collects every zombie it inherits. *)
OrphansAreCollected ==
  \A s \in Slots \ {InitProc} :
    (state[s] = "ZOMBIE" /\ parent[s] = InitProc /\ mainthread[s] = s)
      ~> state[s] = "UNUSED"

=============================================================================
