--------------------------- MODULE ProcTableProofs ---------------------------
(* Proofs about ProcTable and AddressSpace, for every table, any number of *)
(* CPUs, every set of system calls and rules, and every size of a page.    *)
EXTENDS AddressSpace, TLAPS

(* A process that executes occupies a slot. *)
LEMMA CurrentIsSlot ==
  ASSUME TypeOK, NEW c \in Cpus, cpu[c] # Nobody
  PROVE  cpu[c] \in Slots
  BY DEF TypeOK

LEMMA OnType ==
  ASSUME NEW D, NEW R, NEW f \in [D -> R], NEW S, NEW v \in R
  PROVE  On(f, S, v) \in [D -> R]
  BY DEF On

LEMMA WokenType ==
  ASSUME NEW st \in [Slots -> States], NEW ch
  PROVE  Woken(st, ch) \in [Slots -> States]
  BY OnType, "RUNNABLE" \in States DEF Woken, States

(* The part of TypeOK that says which values the variables take.           *)
LEMMA TypeInit == Init => TypeOK
  BY ProcTableAssumption DEF Init, TypeOK, ProcTableAssumption, States, PCs

LEMMA ClearType ==
  ASSUME TypeOK, NEW S, Clear(S)
  PROVE  /\ state' \in [Slots -> States]
         /\ pid' \in [Slots -> Nat]
         /\ parent' \in [Slots -> Slots \cup {Nobody}]
         /\ killed' \in [Slots -> BOOLEAN]
  BY OnType, "UNUSED" \in States, 0 \in Nat, FALSE \in BOOLEAN
     DEF Clear, TypeOK, States

LEMMA ReturnType ==
  ASSUME TypeOK, NEW c \in Cpus, cpu[c] \in Slots, Return(c)
  PROVE  /\ chan' \in [Slots -> Slots \cup Nat \cup {Nobody}]
         /\ cpu' \in [Cpus -> Slots \cup {Nobody}]
         /\ pc' \in [Slots -> PCs]
         /\ np' \in [Slots -> Slots \cup {Nobody}]
         /\ ptr' \in [Slots -> Slots \cup {Nobody}]
         /\ num' \in [Slots -> Nat]
         /\ \A s \in Slots :
              /\ pc'[s] \in {"fork", "thread_create", "thread_parent"} => np'[s] # Nobody
              /\ pc'[s] \in {"waitpid", "sigOneChan"} => ptr'[s] # Nobody
  BY DEF Return, GoTo, TypeOK, PCs

LEMMA SleepOnType ==
  ASSUME TypeOK, NEW c \in Cpus, cpu[c] \in Slots, NEW ch \in Slots \cup Nat,
         NEW where \in PCs, SleepOn(c, ch, where)
  PROVE  /\ state' \in [Slots -> States]
         /\ chan' \in [Slots -> Slots \cup Nat \cup {Nobody}]
         /\ pc' \in [Slots -> PCs]
         /\ pc' = [pc EXCEPT ![cpu[c]] = where]
         /\ cpu' \in [Cpus -> Slots \cup {Nobody}]
  BY DEF SleepOn, GoTo, Off, TypeOK, States

LEMMA FailOrSleepType ==
  ASSUME TypeOK, NEW c \in Cpus, cpu[c] \in Slots, NEW S,
         NEW where \in PCs \ {"fork", "thread_create", "thread_parent",
                              "waitpid", "sigOneChan"},
         NEW n \in Nat,
         FailOrSleep(c, S, where, n), UNCHANGED <<nextpid, channels, victims>>
  PROVE  TypeOK'
<1>1. CASE S = {} \/ killed[cpu[c]]
  BY <1>1, ReturnType DEF FailOrSleep, TypeOK
<1>2. CASE ~(S = {} \/ killed[cpu[c]])
  <2> SleepOn(c, cpu[c], where)
    BY <1>2 DEF FailOrSleep
  <2>1. /\ num' = [num EXCEPT ![cpu[c]] = n]
        /\ UNCHANGED <<np, ptr, pid, parent, mainthread, killed>>
    BY <1>2 DEF FailOrSleep
  <2>2. num' \in [Slots -> Nat]
    BY <2>1 DEF TypeOK
  <2>3. \A s \in Slots : s # cpu[c] => pc'[s] = pc[s]
    BY SleepOnType DEF TypeOK
  <2>4. pc'[cpu[c]] = where
    BY SleepOnType DEF TypeOK
  <2> QED
    BY <2>1, <2>2, <2>3, <2>4, SleepOnType DEF TypeOK, PCs
<1> QED
  BY <1>1, <1>2

(* TypeOK is inductive on its own, with or without the rules. *)
LEMMA TypeStep ==
  ASSUME TypeOK, [Next]_vars
  PROVE  TypeOK'
<1> USE ProcTableAssumption DEF ProcTableAssumption
<1>1. ASSUME NEW c \in Cpus, Scheduler(c) PROVE TypeOK'
  BY <1>1 DEF Scheduler, TypeOK, States, locals, ghosts
<1>2. ASSUME NEW c \in Cpus, Yield(c) PROVE TypeOK'
  BY <1>2 DEF Yield, Off, TypeOK, States, locals, ghosts
<1>3. ASSUME NEW c \in Cpus, AllocProc(c) PROVE TypeOK'
  <2>1. cpu[c] \in Slots
    BY <1>3, CurrentIsSlot DEF AllocProc, Call, At
  <2> QED
    BY <1>3, <2>1 DEF AllocProc, TakeId, GoTo, TypeOK, States, PCs, ghosts
<1>4. ASSUME NEW c \in Cpus, AllocFailed(c) PROVE TypeOK'
  <2>1. cpu[c] \in Slots
    BY <1>4, CurrentIsSlot DEF AllocFailed, At
  <2> QED
    BY <1>4, <2>1 DEF AllocFailed, Return, GoTo, States, ghosts, TypeOK, PCs
<1>5. ASSUME NEW c \in Cpus, Fork(c) PROVE TypeOK'
  <2>1. cpu[c] \in Slots
    BY <1>5, CurrentIsSlot DEF Fork, At
  <2> QED
    BY <1>5, <2>1 DEF Fork, Publish, At, States, ghosts, TypeOK, PCs
<1>6. ASSUME NEW c \in Cpus, ThreadCreate(c) PROVE TypeOK'
  <2>1. cpu[c] \in Slots
    BY <1>6, CurrentIsSlot DEF ThreadCreate, At
  <2> QED
    BY <1>6, <2>1 DEF ThreadCreate, Group, At, GoTo, ghosts, TypeOK, PCs
<1>7. ASSUME NEW c \in Cpus, ThreadStart(c) PROVE TypeOK'
  <2>1. cpu[c] \in Slots
    BY <1>7, CurrentIsSlot DEF ThreadStart, At
  <2> QED
    BY <1>7, <2>1 DEF ThreadStart, Publish, At, States, ghosts, TypeOK, PCs
<1>8. ASSUME NEW c \in Cpus, Exit(c) PROVE TypeOK'
  <2>1. cpu[c] \in Slots
    BY <1>8, CurrentIsSlot DEF Exit, At
  <2>2. /\ Woken(state, Waiter(cpu[c])) \in [Slots -> States]
        /\ Woken(Woken(state, Waiter(cpu[c])), InitProc) \in [Slots -> States]
    BY WokenType DEF TypeOK
  <2>3. Reparented(cpu[c]) \in [Slots -> Slots \cup {Nobody}]
    BY OnType DEF Reparented, TypeOK
  <2> QED
    BY <1>8, <2>1, <2>2, <2>3 DEF Exit, GoTo, Off, States, locals, ghosts, TypeOK, PCs
<1>9. ASSUME NEW c \in Cpus, Wait(c) PROVE TypeOK'
  <2>1. cpu[c] \in Slots
    BY <1>9, CurrentIsSlot DEF Wait, Call, At
  <2>2. CASE FailOrSleep(c, {s \in Slots : parent[s] = cpu[c] /\ mainthread[s] = s}, "wait", 0)
    BY <1>9, <2>1, <2>2, FailOrSleepType DEF Wait, WaitFrame, PCs, ghosts
  <2>3. ASSUME NEW S, Clear(S), mainthread' = On(mainthread, S, Nobody), Return(c)
        PROVE  TypeOK'
    BY <1>9, <2>1, <2>3, OnType, ClearType, ReturnType
       DEF Wait, WaitFrame, ghosts, TypeOK
  <2> QED
    BY <1>9, <2>2, <2>3 DEF Wait
<1>10. ASSUME NEW c \in Cpus, NEW n \in Nat, ThreadJoin(c, n) PROVE TypeOK'
  <2>1. cpu[c] \in Slots
    BY <1>10, CurrentIsSlot DEF ThreadJoin, Call, At
  <2>2. ASSUME NEW S, FailOrSleep(c, S, "thread_join", n) PROVE TypeOK'
    BY <1>10, <2>1, <2>2, FailOrSleepType DEF ThreadJoin, WaitFrame, PCs, ghosts
  <2>3. ASSUME NEW z, Clear({z}),
               mainthread' = [mainthread EXCEPT ![z] = Nobody], Return(c)
        PROVE  TypeOK'
    BY <1>10, <2>1, <2>3, ClearType, ReturnType
       DEF ThreadJoin, WaitFrame, ghosts, TypeOK
  <2> QED
    BY <1>10, <2>2, <2>3 DEF ThreadJoin
<1>11. ASSUME NEW c \in Cpus, NEW s \in Slots, WaitPid(c, s) PROVE TypeOK'
  <2>1. cpu[c] \in Slots
    BY <1>11, CurrentIsSlot DEF WaitPid, Call, At
  <2>2. CASE Zombies({s}) # {}
    BY <1>11, <2>1, <2>2, ClearType, ReturnType
       DEF WaitPid, WaitFrame, ghosts, TypeOK
  <2>3. CASE Zombies({s}) = {}
    <3> SleepOn(c, cpu[c], "waitpid")
      BY <1>11, <2>3 DEF WaitPid
    <3>1. /\ ptr' = [ptr EXCEPT ![cpu[c]] = s]
          /\ UNCHANGED <<pid, parent, killed, np, num, mainthread, nextpid,
                         channels, victims>>
      BY <1>11, <2>3 DEF WaitPid, WaitFrame, ghosts
    <3>2. \A t \in Slots : t # cpu[c] => pc'[t] = pc[t] /\ ptr'[t] = ptr[t]
      BY <2>1, <3>1, SleepOnType DEF TypeOK, PCs
    <3>3. pc'[cpu[c]] = "waitpid" /\ ptr'[cpu[c]] = s /\ s # Nobody
      BY <2>1, <3>1, SleepOnType DEF TypeOK, PCs
    <3>4. ptr' \in [Slots -> Slots \cup {Nobody}]
      BY <3>1 DEF TypeOK
    <3> QED
      BY <2>1, <3>1, <3>2, <3>3, <3>4, SleepOnType DEF TypeOK, PCs
  <2> QED
    BY <2>2, <2>3
<1>12. ASSUME NEW c \in Cpus, NEW n \in KillPids, Kill(c, n) PROVE TypeOK'
  <2>1. cpu[c] \in Slots
    BY <1>12, CurrentIsSlot DEF Kill, Call, At
  <2> QED
    BY <1>12, <2>1 DEF Kill, AfterKill, States, locals, ghosts, TypeOK, PCs
<1>13. ASSUME NEW c \in Cpus, GetChannel(c) PROVE TypeOK'
  <2>1. cpu[c] \in Slots
    BY <1>13, CurrentIsSlot DEF GetChannel, Call, At
  <2> QED
    BY <1>13, <2>1 DEF GetChannel, GoTo, table, ghosts, TypeOK, PCs
<1>14. ASSUME NEW c \in Cpus, GotChannel(c) PROVE TypeOK'
  <2>1. cpu[c] \in Slots
    BY <1>14, CurrentIsSlot DEF GotChannel, At
  <2>2. num[cpu[c]] \in Nat /\ num[cpu[c]] + 1 \in Nat
    BY <2>1 DEF TypeOK
  <2>3. channels' \subseteq Nat /\ nextpid' \in Nat
    BY <1>14, <2>2 DEF GotChannel, TypeOK
  <2> QED
    BY <1>14, <2>1, <2>3 DEF GotChannel, Return, GoTo, TypeOK, PCs
<1>15. ASSUME NEW c \in Cpus, SleepChan(c) PROVE TypeOK'
  <2>1. cpu[c] \in Slots
    BY <1>15, CurrentIsSlot DEF SleepChan, Call, At
  <2> QED
    BY <1>15, <2>1 DEF SleepChan, SleepOn, GoTo, Off, States, locals, ghosts, TypeOK, PCs
<1>16. ASSUME NEW c \in Cpus, SleepChanReturns(c) PROVE TypeOK'
  <2>1. cpu[c] \in Slots
    BY <1>16, CurrentIsSlot DEF SleepChanReturns, At
  <2> QED
    BY <1>16, <2>1 DEF SleepChanReturns, Return, GoTo, ghosts, TypeOK, PCs
<1>17. ASSUME NEW c \in Cpus, SigChan(c) PROVE TypeOK'
  <2>1. cpu[c] \in Slots
    BY <1>17, CurrentIsSlot DEF SigChan, Call, At
  <2> QED
    BY <1>17, <2>1, WokenType DEF SigChan, locals, ghosts, TypeOK, PCs
<1>18. ASSUME NEW c \in Cpus, SigOneChan(c) PROVE TypeOK'
  <2>1. cpu[c] \in Slots
    BY <1>18, CurrentIsSlot DEF SigOneChan, Call, At
  <2> QED
    BY <1>18, <2>1 DEF SigOneChan, GoTo, table, ghosts, TypeOK, PCs
<1>19. ASSUME NEW c \in Cpus, SigOneChanStores(c) PROVE TypeOK'
  <2>1. cpu[c] \in Slots
    BY <1>19, CurrentIsSlot DEF SigOneChanStores, At
  <2> QED
    BY <1>19, <2>1 DEF SigOneChanStores, At, Return, GoTo, States, ghosts, TypeOK, PCs
<1>20. CASE UNCHANGED vars
  BY <1>20 DEF vars, table, locals, ghosts, TypeOK
<1>21. 0..MaxPid \subseteq Nat
  OBVIOUS
<1> QED
  BY <1>1, <1>2, <1>3, <1>4, <1>5, <1>6, <1>7, <1>8, <1>9, <1>10, <1>11,
     <1>12, <1>13, <1>14, <1>15, <1>16, <1>17, <1>18, <1>19, <1>20, <1>21
     DEF Next, Lifecycle, Waiting, Signalling

(* The fields of the process table and the locals of the system calls keep *)
(* their types, and a call that is under way has the slot pointer it is    *)
(* going to write through.                                                 *)
THEOREM TypeCorrect == Spec => []TypeOK
<1>1. Init => TypeOK
  BY TypeInit
<1>2. TypeOK /\ [Next]_vars => TypeOK'
  BY TypeStep
<1> QED
  BY <1>1, <1>2, PTL DEF Spec

-----------------------------------------------------------------------------
(* Pids and channels.  The counter nextpid is above every number that has  *)
(* been handed out, and the one id that is on its way, between the two     *)
(* halves of getChannel, is the value of the counter.  This is inductive   *)
(* only for programs that keep to the rule "ids".                          *)
Ids ==
  /\ 0 < nextpid
  /\ \A s \in Slots : pid[s] < nextpid
  /\ UniquePids
  /\ \A ch \in channels : ch < nextpid /\ 0 < ch /\ \A s \in Slots : pid[s] # ch
  /\ \A s \in Slots : pc[s] = "getChannel" => num[s] = nextpid
  /\ \A s, t \in Slots : pc[s] = "getChannel" /\ pc[t] = "getChannel" => s = t

LEMMA IdsInit == Init => Ids
  BY ProcTableAssumption DEF Init, Ids, UniquePids, ProcTableAssumption

(* A step that hands out no id and at most clears pids.                    *)
LEMMA IdsFrame ==
  ASSUME TypeOK, Ids,
         UNCHANGED <<nextpid, channels>>,
         \A s \in Slots : pid'[s] = pid[s] \/ pid'[s] = 0,
         \A s \in Slots : pc'[s] = "getChannel" =>
                            pc[s] = "getChannel" /\ num'[s] = num[s]
  PROVE  Ids'
  BY DEF Ids, UniquePids, TypeOK

LEMMA ClearedPids ==
  ASSUME TypeOK, NEW S, Clear(S)
  PROVE  \A s \in Slots : pid'[s] = pid[s] \/ pid'[s] = 0
  BY DEF Clear, On, TypeOK

(* A system call that returns, or sleeps elsewhere, is not in getChannel.  *)
LEMMA ReturnLeaves ==
  ASSUME TypeOK, NEW c \in Cpus, cpu[c] \in Slots, Return(c)
  PROVE  \A s \in Slots : pc'[s] = "getChannel" =>
                            pc[s] = "getChannel" /\ num'[s] = num[s]
  BY DEF Return, GoTo, TypeOK

LEMMA SleepLeaves ==
  ASSUME TypeOK, NEW c \in Cpus, cpu[c] \in Slots, NEW ch, NEW where,
         where # "getChannel", SleepOn(c, ch, where),
         \A s \in Slots \ {cpu[c]} : num'[s] = num[s]
  PROVE  \A s \in Slots : pc'[s] = "getChannel" =>
                            pc[s] = "getChannel" /\ num'[s] = num[s]
  BY DEF SleepOn, GoTo, TypeOK

LEMMA FailOrSleepIds ==
  ASSUME TypeOK, Ids, NEW c \in Cpus, cpu[c] \in Slots, NEW S, NEW where, NEW n,
         where # "getChannel", FailOrSleep(c, S, where, n),
         UNCHANGED <<nextpid, channels, victims>>
  PROVE  Ids'
<1>1. UNCHANGED pid
  BY DEF FailOrSleep
<1>2. CASE S = {} \/ killed[cpu[c]]
  BY <1>1, <1>2, ReturnLeaves, IdsFrame DEF FailOrSleep
<1>3. CASE ~(S = {} \/ killed[cpu[c]])
  <2>1. SleepOn(c, cpu[c], where) /\ num' = [num EXCEPT ![cpu[c]] = n]
    BY <1>3 DEF FailOrSleep
  <2>2. \A s \in Slots \ {cpu[c]} : num'[s] = num[s]
    BY <2>1 DEF TypeOK
  <2> QED
    BY <1>1, <2>1, <2>2, SleepLeaves, IdsFrame
<1> QED
  BY <1>2, <1>3

(* The two steps that hand out an id. *)
LEMMA AllocProcIds ==
  ASSUME "ids" \in Rules, TypeOK, Ids, NEW c \in Cpus, AllocProc(c)
  PROVE  Ids'
<1>1. cpu[c] \in Slots
  BY CurrentIsSlot DEF AllocProc, Call, At
<1>2. PICK s \in Slots : pid' = [pid EXCEPT ![s] = nextpid]
  BY DEF AllocProc
<1>3. nextpid' = nextpid + 1 /\ UNCHANGED channels
  BY DEF AllocProc, TakeId, ghosts
<1>4. \A t \in Slots : pc[t] # "getChannel"
  BY DEF AllocProc, NoIdInFlight
<1>5. \A t \in Slots : pc'[t] # "getChannel"
  BY <1>1, <1>4 DEF AllocProc, GoTo, TypeOK
<1>6. nextpid \in Nat /\ pid \in [Slots -> Nat] /\ channels \subseteq Nat
  BY DEF TypeOK
<1>7. UniquePids'
  BY <1>2, <1>6 DEF Ids, UniquePids
<1>8. \A t \in Slots : pid'[t] = pid[t] \/ pid'[t] = nextpid
  BY <1>2, <1>6
<1>9. \A t \in Slots : pid[t] \in Nat /\ pid[t] < nextpid
  BY <1>6 DEF Ids
<1>10. \A t \in Slots : pid'[t] < nextpid'
  BY <1>3, <1>6, <1>8, <1>9
<1>11. \A ch \in channels : ch \in Nat /\ ch < nextpid /\ 0 < ch
                              /\ \A t \in Slots : pid'[t] # ch
  BY <1>6, <1>8 DEF Ids
<1> QED
  BY <1>3, <1>5, <1>6, <1>7, <1>10, <1>11 DEF Ids

LEMMA GotChannelIds ==
  ASSUME TypeOK, Ids, NEW c \in Cpus, GotChannel(c)
  PROVE  Ids'
<1>1. cpu[c] \in Slots /\ pc[cpu[c]] = "getChannel"
  BY CurrentIsSlot DEF GotChannel, At
<1>2. num[cpu[c]] = nextpid
  BY <1>1 DEF Ids
<1>3. /\ nextpid' = nextpid + 1
      /\ channels' = channels \cup {nextpid}
      /\ UNCHANGED pid
  BY <1>2 DEF GotChannel
<1>4. \A t \in Slots : pc'[t] # "getChannel"
  BY <1>1 DEF GotChannel, Return, GoTo, Ids, TypeOK
<1>5. nextpid \in Nat /\ pid \in [Slots -> Nat] /\ channels \subseteq Nat
  BY DEF TypeOK
<1>6. \A t \in Slots : pid[t] \in Nat /\ pid[t] < nextpid
  BY <1>5 DEF Ids
<1>7. \A ch \in channels : ch \in Nat /\ ch < nextpid /\ 0 < ch
                             /\ \A t \in Slots : pid[t] # ch
  BY <1>5 DEF Ids
<1>8. ASSUME NEW ch \in channels'
      PROVE  ch < nextpid' /\ 0 < ch /\ \A t \in Slots : pid'[t] # ch
  <2>1. CASE ch \in channels
    BY <1>3, <1>5, <1>7, <2>1
  <2>2. CASE ch = nextpid
    <3>1. \A t \in Slots : pid[t] # nextpid
      BY <1>5, <1>6
    <3> QED
      BY <1>3, <1>5, <2>2, <3>1 DEF Ids
  <2> QED
    BY <1>3, <2>1, <2>2
<1>9. UniquePids' /\ 0 < nextpid' /\ \A t \in Slots : pid'[t] < nextpid'
  BY <1>3, <1>5, <1>6 DEF Ids, UniquePids
<1> QED
  BY <1>4, <1>8, <1>9 DEF Ids

LEMMA IdsStep ==
  ASSUME "ids" \in Rules, TypeOK, Ids, [Next]_vars
  PROVE  Ids'
<1>1. ASSUME NEW c \in Cpus, Scheduler(c) PROVE Ids'
  BY <1>1, IdsFrame DEF Scheduler, locals, ghosts
<1>2. ASSUME NEW c \in Cpus, Yield(c) PROVE Ids'
  BY <1>2, IdsFrame DEF Yield, locals, ghosts
<1>3. ASSUME NEW c \in Cpus, AllocProc(c) PROVE Ids'
  BY <1>3, AllocProcIds
<1>4. ASSUME NEW c \in Cpus, AllocFailed(c) PROVE Ids'
  <2>1. cpu[c] \in Slots
    BY <1>4, CurrentIsSlot DEF AllocFailed, At
  <2> QED
    BY <1>4, <2>1, ReturnLeaves, IdsFrame DEF AllocFailed, ghosts
<1>5. ASSUME NEW c \in Cpus, NEW mother, Publish(c, mother) PROVE Ids'
  BY <1>5, IdsFrame DEF Publish, ghosts, TypeOK
<1>6. ASSUME NEW c \in Cpus, ThreadCreate(c) PROVE Ids'
  BY <1>6, IdsFrame DEF ThreadCreate, GoTo, ghosts, TypeOK
<1>7. ASSUME NEW c \in Cpus, Exit(c) PROVE Ids'
  BY <1>7, IdsFrame DEF Exit, GoTo, locals, ghosts, TypeOK
<1>8. ASSUME NEW c \in Cpus, Wait(c) PROVE Ids'
  <2>1. cpu[c] \in Slots
    BY <1>8, CurrentIsSlot DEF Wait, Call, At
  <2>2. ASSUME NEW S, FailOrSleep(c, S, "wait", 0) PROVE Ids'
    BY <1>8, <2>1, <2>2, FailOrSleepIds DEF Wait, WaitFrame, ghosts
  <2>3. ASSUME NEW S, Clear(S), Return(c) PROVE Ids'
    BY <1>8, <2>1, <2>3, ClearedPids, ReturnLeaves, IdsFrame
       DEF Wait, WaitFrame, ghosts
  <2> QED
    BY <1>8, <2>2, <2>3 DEF Wait
<1>9. ASSUME NEW c \in Cpus, NEW n, ThreadJoin(c, n) PROVE Ids'
  <2>1. cpu[c] \in Slots
    BY <1>9, CurrentIsSlot DEF ThreadJoin, Call, At
  <2>2. ASSUME NEW S, FailOrSleep(c, S, "thread_join", n) PROVE Ids'
    BY <1>9, <2>1, <2>2, FailOrSleepIds DEF ThreadJoin, WaitFrame, ghosts
  <2>3. ASSUME NEW z, Clear({z}), Return(c) PROVE Ids'
    BY <1>9, <2>1, <2>3, ClearedPids, ReturnLeaves, IdsFrame
       DEF ThreadJoin, WaitFrame, ghosts
  <2> QED
    BY <1>9, <2>2, <2>3 DEF ThreadJoin
<1>10. ASSUME NEW c \in Cpus, NEW s \in Slots, WaitPid(c, s) PROVE Ids'
  <2>1. cpu[c] \in Slots
    BY <1>10, CurrentIsSlot DEF WaitPid, Call, At
  <2>2. CASE Zombies({s}) # {}
    BY <1>10, <2>1, <2>2, ClearedPids, ReturnLeaves, IdsFrame
       DEF WaitPid, WaitFrame, ghosts
  <2>3. CASE Zombies({s}) = {}
    <3>1. SleepOn(c, cpu[c], "waitpid") /\ UNCHANGED <<pid, num, nextpid, channels>>
      BY <1>10, <2>3 DEF WaitPid, WaitFrame, ghosts
    <3> QED
      BY <2>1, <3>1, SleepLeaves, IdsFrame
  <2> QED
    BY <2>2, <2>3
<1>11. ASSUME NEW c \in Cpus, NEW n, Kill(c, n) PROVE Ids'
  BY <1>11, IdsFrame DEF Kill, locals, ghosts
<1>12. ASSUME NEW c \in Cpus, GetChannel(c) PROVE Ids'
  <2>1. cpu[c] \in Slots
    BY <1>12, CurrentIsSlot DEF GetChannel, Call, At
  <2>2. /\ \A s \in Slots : pc[s] # "getChannel"
        /\ UNCHANGED <<pid, nextpid, channels>>
    BY <1>12 DEF GetChannel, NoIdInFlight, table, ghosts
  <2>3. \A s \in Slots : pc'[s] = "getChannel" => s = cpu[c] /\ num'[s] = nextpid
    BY <1>12, <2>1, <2>2 DEF GetChannel, GoTo, TypeOK
  <2> QED
    BY <2>2, <2>3 DEF Ids, UniquePids
<1>13. ASSUME NEW c \in Cpus, GotChannel(c) PROVE Ids'
  BY <1>13, GotChannelIds
<1>14. ASSUME NEW c \in Cpus, SleepChan(c) PROVE Ids'
  <2>1. cpu[c] \in Slots
    BY <1>14, CurrentIsSlot DEF SleepChan, Call, At
  <2> QED
    BY <1>14, <2>1, SleepLeaves, IdsFrame DEF SleepChan, locals, ghosts
<1>15. ASSUME NEW c \in Cpus, SleepChanReturns(c) PROVE Ids'
  <2>1. cpu[c] \in Slots
    BY <1>15, CurrentIsSlot DEF SleepChanReturns, At
  <2> QED
    BY <1>15, <2>1, ReturnLeaves, IdsFrame DEF SleepChanReturns, ghosts
<1>16. ASSUME NEW c \in Cpus, SigChan(c) PROVE Ids'
  BY <1>16, IdsFrame DEF SigChan, locals, ghosts
<1>17. ASSUME NEW c \in Cpus, SigOneChan(c) PROVE Ids'
  BY <1>17, IdsFrame DEF SigOneChan, GoTo, table, ghosts, TypeOK
<1>18. ASSUME NEW c \in Cpus, SigOneChanStores(c) PROVE Ids'
  <2>1. cpu[c] \in Slots
    BY <1>18, CurrentIsSlot DEF SigOneChanStores, At
  <2> QED
    BY <1>18, <2>1, ReturnLeaves, IdsFrame DEF SigOneChanStores, ghosts
<1>19. CASE UNCHANGED vars
  BY <1>19, IdsFrame DEF vars, table, locals, ghosts
<1> QED
  BY <1>1, <1>2, <1>3, <1>4, <1>5, <1>6, <1>7, <1>8, <1>9, <1>10, <1>11,
     <1>12, <1>13, <1>14, <1>15, <1>16, <1>17, <1>18, <1>19
     DEF Next, Lifecycle, Waiting, Signalling, Fork, ThreadStart

LEMMA IdsAlways == ASSUME "ids" \in Rules PROVE Spec => []Ids
<1>1. TypeOK /\ Ids /\ [Next]_vars => Ids'
  BY IdsStep
<1> QED
  BY <1>1, IdsInit, TypeCorrect, PTL DEF Spec

(* A pid names one entry of the table, also among the numbers left in      *)
(* entries that are free, as long as getChannel does not run beside another*)
(* allocation of an id.                                                    *)
THEOREM PidsAreUnique == ASSUME "ids" \in Rules PROVE Spec => []UniquePids
<1>1. Ids => UniquePids
  BY DEF Ids
<1> QED
  BY <1>1, IdsAlways, PTL

(* Under the same rule the numbers getChannel has returned are no process's*)
(* pid: sleepChan, sigChan and sigOneChan do not panic.                    *)
THEOREM ChannelsApart == ASSUME "ids" \in Rules PROVE Spec => []ChannelsAreNotPids
<1>1. Ids => ChannelsAreNotPids
  BY DEF Ids, ChannelsAreNotPids, IsPid
<1> QED
  BY <1>1, IdsAlways, PTL

-----------------------------------------------------------------------------
(* Who writes whose state.  A process changes the state of a slot other    *)
(* than its own without the lock when it gives back, or publishes, the slot*)
(* it is creating, and when sigOneChan stores.  The first is an embryo     *)
(* that belongs to nobody else (Creators); the second still sleeps on a    *)
(* channel, thanks to the rule "signal" (Signallers).  Whoever reaps a     *)
(* slot reaps a zombie: that wait also frees the threads of a zombie does  *)
(* no harm because there are none, thanks to the rule "join", which        *)
(* ThreadsHaveMain carries.                                                *)
Creating == {"fork", "thread_create", "thread_parent"}

Places ==
  \A s \in Slots :
    /\ state[s] = "ZOMBIE" => pc[s] = "zombie"
    /\ state[s] \in {"UNUSED", "EMBRYO"} => pc[s] \in {"user", "zombie"}
    /\ state[s] \in {"SLEEPING", "RUNNABLE", "RUNNING"} => pc[s] # "zombie"

Creators ==
  \A s \in Slots : pc[s] \in Creating =>
    /\ state[np[s]] = "EMBRYO"
    /\ \A t \in Slots : pc[t] \in Creating /\ np[t] = np[s] => t = s

Signallers ==
  \A s \in Slots : pc[s] = "sigOneChan" =>
    /\ state[ptr[s]] = "SLEEPING"
    /\ chan[ptr[s]] \in Nat
    /\ \A t \in Slots : pc[t] = "sigOneChan" /\ ptr[t] = ptr[s] => t = s

(* A slot that is being created is nobody's main thread yet.               *)
EmbryosAreAlone ==
  \A s, t \in Slots :
    state[s] = "EMBRYO" /\ Live(t) /\ mainthread[t] = s => t = s

Kernel ==
  /\ TypeOK
  /\ OneCpuPerProcess
  /\ Places /\ Creators /\ Signallers
  /\ ThreadsHaveMain /\ EmbryosAreAlone

LEMMA KernelInit == Init => Kernel
<1> SUFFICES ASSUME Init PROVE Kernel
  OBVIOUS
<1> USE ProcTableAssumption DEF ProcTableAssumption
<1>1. TypeOK
  BY TypeInit
<1>2. OneCpuPerProcess
  BY DEF Init, OneCpuPerProcess
<1>3. Places /\ Creators /\ Signallers
  BY DEF Init, Places, Creators, Creating, Signallers
<1>4. ThreadsHaveMain /\ EmbryosAreAlone
  BY DEF Init, ThreadsHaveMain, EmbryosAreAlone, Live
<1> QED
  BY <1>1, <1>2, <1>3, <1>4 DEF Kernel

LEMMA CurrentRuns ==
  ASSUME Kernel, NEW c \in Cpus, cpu[c] # Nobody
  PROVE  cpu[c] \in Slots /\ state[cpu[c]] = "RUNNING"
  BY DEF Kernel, TypeOK, OneCpuPerProcess

(* The slots that nobody signals: the others sleep on a channel.           *)
Unsignalled(s) == \A t \in Slots : pc[t] = "sigOneChan" => ptr[t] # s

LEMMA ChannelSleepersOnly ==
  ASSUME Kernel, NEW s \in Slots, state[s] # "SLEEPING" \/ chan[s] \notin Nat
  PROVE  Unsignalled(s)
  BY DEF Kernel, Signallers, Unsignalled, TypeOK

(* The places of the processes, and the slots they create and signal, after*)
(* a step that hands out no slot: sleepers may be woken, zombies reaped,   *)
(* the actor changes its own state, and it gets no new slot to write to.   *)
LEMMA CallersStay ==
  ASSUME Kernel, TypeOK', NEW cur \in Slots,
         state[cur] \in {"RUNNING", "RUNNABLE"},
         \A s \in Slots \ {cur} :
           /\ \/ state'[s] = state[s]
              \/ state[s] = "SLEEPING" /\ state'[s] = "RUNNABLE" /\ Unsignalled(s)
              \/ state[s] = "ZOMBIE" /\ state'[s] = "UNUSED"
           /\ pc'[s] = pc[s] /\ np'[s] = np[s]
           /\ ptr'[s] = ptr[s] /\ chan'[s] = chan[s],
         state'[cur] \notin {"EMBRYO", "UNUSED"},
         \/ pc'[cur] = pc[cur] /\ np'[cur] = np[cur] /\ ptr'[cur] = ptr[cur]
         \/ pc'[cur] \notin Creating \cup {"sigOneChan"},
         state'[cur] = "ZOMBIE" <=> pc'[cur] = "zombie"
  PROVE  Places' /\ Creators' /\ Signallers'
<1> USE DEF Kernel
<1>1. Places'
  BY DEF Places, TypeOK, States
<1>2. Creators'
  BY DEF Creators, Creating, TypeOK
<1>3. Signallers'
  BY DEF Signallers, Unsignalled, TypeOK
<1> QED
  BY <1>1, <1>2, <1>3

(* The main threads, after a step that frees zombies and makes no thread.  *)
LEMMA GroupsStay ==
  ASSUME Kernel, TypeOK',
         \A s \in Slots :
           \/ state'[s] = state[s] /\ mainthread'[s] = mainthread[s]
           \/ /\ state[s] \notin {"UNUSED", "EMBRYO", "ZOMBIE"}
              /\ state'[s] \notin {"UNUSED", "EMBRYO", "ZOMBIE"}
              /\ mainthread'[s] = mainthread[s]
           \/ state[s] = "ZOMBIE" /\ state'[s] = "UNUSED"
  PROVE  ThreadsHaveMain' /\ EmbryosAreAlone'
<1> USE DEF Kernel
<1>1. ASSUME NEW s \in Slots, state'[s] # "UNUSED"
      PROVE  /\ mainthread'[s] = mainthread[s] /\ Live(s)
             /\ mainthread[s] \in Slots
             /\ mainthread'[mainthread[s]] = mainthread[s]
             /\ state'[mainthread[s]] # "UNUSED"
             /\ mainthread[s] # s => state'[mainthread[s]] # "ZOMBIE"
  <2>1. mainthread'[s] = mainthread[s] /\ Live(s)
    BY <1>1 DEF Live, TypeOK
  <2>2. PICK m \in Slots : /\ m = mainthread[s]
                           /\ mainthread[m] = m /\ Live(m)
                           /\ m # s => state[m] # "ZOMBIE"
    BY <2>1 DEF ThreadsHaveMain, TypeOK
  <2>3. /\ mainthread'[m] = m /\ state'[m] # "UNUSED"
        /\ m # s => state'[m] # "ZOMBIE"
    BY <1>1, <2>1, <2>2 DEF Live, TypeOK
  <2> QED
    BY <2>1, <2>2, <2>3
<1>2. ThreadsHaveMain'
  BY <1>1, ProcTableAssumption DEF ProcTableAssumption, ThreadsHaveMain, Live
<1>3. EmbryosAreAlone'
  BY <1>1 DEF EmbryosAreAlone, Live
<1> QED
  BY <1>2, <1>3

(* The processors, after a step in which nobody starts or stops running    *)
(* and one in which one process stops.                                     *)
LEMMA CpusStay ==
  ASSUME Kernel, UNCHANGED cpu,
         \A s \in Slots : state'[s] = "RUNNING" <=> state[s] = "RUNNING"
  PROVE  OneCpuPerProcess'
  BY DEF Kernel, TypeOK, OneCpuPerProcess

LEMMA CpuIsLeft ==
  ASSUME Kernel, NEW c \in Cpus, cpu[c] # Nobody, Off(c),
         state'[cpu[c]] # "RUNNING",
         \A s \in Slots \ {cpu[c]} : state'[s] = "RUNNING" <=> state[s] = "RUNNING"
  PROVE  OneCpuPerProcess'
  BY DEF Kernel, TypeOK, OneCpuPerProcess, Off

(* The two ways in which a call that waits ends or goes to sleep, and the  *)
(* clearing of slots, slot by slot.                                        *)
LEMMA ReturnsTo ==
  ASSUME Kernel, NEW c \in Cpus, cpu[c] # Nobody, Return(c)
  PROVE  /\ UNCHANGED cpu
         /\ pc'[cpu[c]] = "user"
         /\ \A s \in Slots \ {cpu[c]} :
              /\ pc'[s] = pc[s] /\ np'[s] = np[s]
              /\ ptr'[s] = ptr[s] /\ chan'[s] = chan[s]
  BY CurrentRuns DEF Kernel, TypeOK, Return, GoTo

LEMMA SleepsOn ==
  ASSUME Kernel, NEW c \in Cpus, cpu[c] # Nobody, NEW ch, NEW where,
         SleepOn(c, ch, where)
  PROVE  /\ Off(c)
         /\ pc'[cpu[c]] = where /\ state'[cpu[c]] = "SLEEPING"
         /\ \A s \in Slots \ {cpu[c]} :
              pc'[s] = pc[s] /\ chan'[s] = chan[s] /\ state'[s] = state[s]
  BY CurrentRuns DEF Kernel, TypeOK, SleepOn, GoTo

LEMMA WokenIs ==
  ASSUME NEW st \in [Slots -> States], NEW ch, NEW s \in Slots
  PROVE  Woken(st, ch)[s] = IF st[s] = "SLEEPING" /\ chan[s] = ch
                            THEN "RUNNABLE" ELSE st[s]
  BY DEF Woken, On

LEMMA ClearIs ==
  ASSUME Kernel, NEW S, Clear(S), NEW s \in Slots
  PROVE  /\ s \in S => state'[s] = "UNUSED" /\ pid'[s] = 0
                         /\ parent'[s] = Nobody /\ killed'[s] = FALSE
         /\ s \notin S => state'[s] = state[s] /\ pid'[s] = pid[s]
                         /\ parent'[s] = parent[s] /\ killed'[s] = killed[s]
  BY DEF Kernel, TypeOK, Clear, On

(* A zombie is nobody else's main thread.                                  *)
LEMMA ZombiesAreAlone ==
  ASSUME Kernel, NEW z \in Slots, state[z] = "ZOMBIE",
         NEW s \in Slots, Live(s), mainthread[s] = z
  PROVE  s = z
  BY DEF Kernel, ThreadsHaveMain

-----------------------------------------------------------------------------
(* The steps of the kernel, one lemma for each kind.                       *)

LEMMA SchedulerKernel ==
  ASSUME Kernel, TypeOK', NEW c \in Cpus, Scheduler(c) PROVE Kernel'
<1>1. PICK s \in Slots : /\ state[s] = "RUNNABLE"
                         /\ state' = [state EXCEPT ![s] = "RUNNING"]
                         /\ cpu' = [cpu EXCEPT ![c] = s]
  BY DEF Scheduler
<1>2. /\ cpu[c] = Nobody
      /\ UNCHANGED <<mainthread, chan, pc, np, ptr>>
  BY DEF Scheduler, locals
<1>3. state'[s] = "RUNNING" /\ \A t \in Slots \ {s} : state'[t] = state[t]
  BY <1>1 DEF Kernel, TypeOK
<1>4. pc[s] # "zombie"
  BY <1>1 DEF Kernel, Places
<1>5. OneCpuPerProcess'
  <2>1. cpu'[c] = s /\ \A d \in Cpus \ {c} : cpu'[d] = cpu[d]
    BY <1>1 DEF Kernel, TypeOK
  <2>2. \A d \in Cpus : cpu[d] # s
    BY <1>1, ProcTableAssumption
       DEF Kernel, OneCpuPerProcess, ProcTableAssumption
  <2>3. \A d \in Cpus : cpu[d] # Nobody => cpu[d] \in Slots
    BY DEF Kernel, TypeOK
  <2>4. \A d \in Cpus : cpu'[d] # Nobody => state'[cpu'[d]] = "RUNNING"
    BY <1>3, <2>1, <2>2, <2>3 DEF Kernel, OneCpuPerProcess
  <2>5. \A t \in Slots : state'[t] = "RUNNING" => \E d \in Cpus : cpu'[d] = t
    <3> SUFFICES ASSUME NEW t \in Slots, state'[t] = "RUNNING"
                 PROVE  \E d \in Cpus : cpu'[d] = t
      OBVIOUS
    <3>1. CASE t = s
      BY <2>1, <3>1
    <3>2. CASE t # s
      <4>1. PICK d \in Cpus : cpu[d] = t
        BY <1>3, <3>2 DEF Kernel, OneCpuPerProcess
      <4>2. d # c
        BY <1>2, <4>1, ProcTableAssumption DEF ProcTableAssumption
      <4> QED
        BY <2>1, <4>1, <4>2
    <3> QED
      BY <3>1, <3>2
  <2>6. \A d, e \in Cpus : cpu'[d] = cpu'[e] /\ cpu'[d] # Nobody => d = e
    BY <2>1, <2>2 DEF Kernel, OneCpuPerProcess
  <2> QED
    BY <2>4, <2>5, <2>6 DEF OneCpuPerProcess
<1>6. Places' /\ Creators' /\ Signallers'
  BY <1>1, <1>2, <1>3, <1>4, CallersStay
<1>7. ThreadsHaveMain' /\ EmbryosAreAlone'
  BY <1>1, <1>2, <1>3, GroupsStay
<1> QED
  BY <1>5, <1>6, <1>7 DEF Kernel

LEMMA YieldKernel ==
  ASSUME Kernel, TypeOK', NEW c \in Cpus, Yield(c) PROVE Kernel'
<1>1. PICK cur \in Slots : cur = cpu[c] /\ state[cur] = "RUNNING"
  BY CurrentRuns DEF Yield
<1>2. /\ cpu[c] # Nobody /\ Off(c)
      /\ UNCHANGED <<mainthread, chan, pc, np, ptr>>
  BY DEF Yield, locals
<1>3. state'[cur] = "RUNNABLE" /\ \A t \in Slots \ {cur} : state'[t] = state[t]
  BY <1>1 DEF Yield, Kernel, TypeOK
<1>4. pc[cur] # "zombie"
  BY <1>1 DEF Kernel, Places
<1>5. OneCpuPerProcess'
  BY <1>1, <1>2, <1>3, CpuIsLeft
<1>6. Places' /\ Creators' /\ Signallers'
  BY <1>1, <1>2, <1>3, <1>4, CallersStay
<1>7. ThreadsHaveMain' /\ EmbryosAreAlone'
  BY <1>1, <1>2, <1>3, GroupsStay
<1> QED
  BY <1>5, <1>6, <1>7 DEF Kernel

LEMMA AllocProcKernel ==
  ASSUME Kernel, TypeOK', NEW c \in Cpus, AllocProc(c) PROVE Kernel'
<1>1. cpu[c] # Nobody /\ pc[cpu[c]] = "user"
  BY DEF AllocProc, Call, At
<1>2. PICK cur \in Slots : cur = cpu[c] /\ state[cur] = "RUNNING"
  BY <1>1, CurrentRuns
<1>3. PICK new \in Slots : /\ state[new] = "UNUSED"
                           /\ state' = [state EXCEPT ![new] = "EMBRYO"]
                           /\ mainthread' = [mainthread EXCEPT ![new] = new]
                           /\ np' = [np EXCEPT ![cur] = new]
  BY <1>2 DEF AllocProc
<1>4. PICK call \in {"fork", "thread_create"} : pc' = [pc EXCEPT ![cur] = call]
  BY <1>2 DEF AllocProc, GoTo
<1>5. UNCHANGED <<chan, cpu, ptr>>
  BY DEF AllocProc
<1>6. /\ state'[new] = "EMBRYO" /\ mainthread'[new] = new
      /\ \A s \in Slots \ {new} : /\ state'[s] = state[s]
                                  /\ mainthread'[s] = mainthread[s]
  BY <1>3 DEF Kernel, TypeOK
<1>7. /\ pc'[cur] = call /\ np'[cur] = new
      /\ \A s \in Slots \ {cur} : pc'[s] = pc[s] /\ np'[s] = np[s]
  BY <1>3, <1>4 DEF Kernel, TypeOK
<1>8. OneCpuPerProcess'
  BY <1>3, <1>5, <1>6, CpusStay
<1>9. Places'
  BY <1>2, <1>3, <1>6, <1>7 DEF Kernel, Places
<1>10. Creators'
  BY <1>1, <1>2, <1>3, <1>6, <1>7 DEF Kernel, Creators, Creating, TypeOK
<1>11. Signallers'
  BY <1>1, <1>2, <1>3, <1>5, <1>6, <1>7 DEF Kernel, Signallers, TypeOK
<1>12. \A s \in Slots : Live(s) => mainthread[s] # new
  BY <1>3 DEF Kernel, ThreadsHaveMain, Live
<1>13. ThreadsHaveMain'
  BY <1>3, <1>6, <1>12, ProcTableAssumption
     DEF Kernel, ThreadsHaveMain, Live, TypeOK, ProcTableAssumption
<1>14. EmbryosAreAlone'
  BY <1>3, <1>6, <1>12 DEF Kernel, EmbryosAreAlone, Live
<1> QED
  BY <1>8, <1>9, <1>10, <1>11, <1>13, <1>14 DEF Kernel

LEMMA AllocFailedKernel ==
  ASSUME Kernel, TypeOK', NEW c \in Cpus, AllocFailed(c) PROVE Kernel'
<1>1. cpu[c] # Nobody /\ pc[cpu[c]] \in {"fork", "thread_create"} /\ Return(c)
  BY DEF AllocFailed, At
<1>2. PICK cur \in Slots : cur = cpu[c] /\ state[cur] = "RUNNING"
  BY <1>1, CurrentRuns
<1>3. PICK new \in Slots : new = np[cur] /\ state[new] = "EMBRYO"
  BY <1>1, <1>2, ProcTableAssumption
     DEF Kernel, TypeOK, Creators, Creating, ProcTableAssumption
<1>4. /\ state'[new] = "UNUSED"
      /\ \A s \in Slots \ {new} : state'[s] = state[s]
      /\ UNCHANGED mainthread
  BY <1>2, <1>3 DEF AllocFailed, Kernel, TypeOK
<1>5. /\ UNCHANGED cpu
      /\ pc'[cur] = "user"
      /\ \A s \in Slots \ {cur} : /\ pc'[s] = pc[s] /\ np'[s] = np[s]
                                  /\ ptr'[s] = ptr[s] /\ chan'[s] = chan[s]
  BY <1>1, <1>2, ReturnsTo
<1>6. OneCpuPerProcess'
  BY <1>3, <1>4, <1>5, CpusStay
<1>7. Places'
  BY <1>2, <1>3, <1>4, <1>5 DEF Kernel, Places
<1>8. Creators'
  BY <1>1, <1>2, <1>3, <1>4, <1>5 DEF Kernel, Creators, Creating, TypeOK
<1>9. Signallers'
  BY <1>2, <1>3, <1>4, <1>5 DEF Kernel, Signallers, TypeOK
<1>10. \A s \in Slots : Live(s) /\ mainthread[s] = new => s = new
  BY <1>3 DEF Kernel, EmbryosAreAlone
<1>11. ThreadsHaveMain'
  BY <1>4, <1>10 DEF Kernel, ThreadsHaveMain, Live, TypeOK
<1>12. EmbryosAreAlone'
  BY <1>4 DEF Kernel, EmbryosAreAlone, Live
<1> QED
  BY <1>6, <1>7, <1>8, <1>9, <1>11, <1>12 DEF Kernel

LEMMA PublishKernel ==
  ASSUME Kernel, TypeOK', NEW c \in Cpus, NEW mother, cpu[c] # Nobody,
         pc[cpu[c]] \in Creating, Publish(c, mother), UNCHANGED mainthread
  PROVE  Kernel'
<1>1. PICK cur \in Slots : cur = cpu[c] /\ state[cur] = "RUNNING"
  BY CurrentRuns
<1>2. PICK new \in Slots : new = np[cur] /\ state[new] = "EMBRYO"
  BY <1>1, ProcTableAssumption
     DEF Kernel, TypeOK, Creators, Creating, ProcTableAssumption
<1>3. /\ state'[new] = "RUNNABLE"
      /\ \A s \in Slots \ {new} : state'[s] = state[s]
      /\ UNCHANGED <<cpu, chan>>
  BY <1>1, <1>2 DEF Publish, Kernel, TypeOK
<1>4. /\ pc'[cur] = "user" /\ pc'[new] = "user"
      /\ \A s \in Slots \ {cur, new} : pc'[s] = pc[s]
      /\ \A s \in Slots \ {cur} : np'[s] = np[s] /\ ptr'[s] = ptr[s]
  BY <1>1, <1>2 DEF Publish, Kernel, TypeOK
<1>5. OneCpuPerProcess'
  BY <1>2, <1>3, CpusStay
<1>6. Places'
  BY <1>1, <1>2, <1>3, <1>4 DEF Kernel, Places
<1>7. Creators'
  BY <1>1, <1>2, <1>3, <1>4 DEF Kernel, Creators, Creating, TypeOK
<1>8. Signallers'
  BY <1>1, <1>2, <1>3, <1>4 DEF Kernel, Signallers, TypeOK
<1>9. ThreadsHaveMain'
  BY <1>2, <1>3 DEF Kernel, ThreadsHaveMain, Live, TypeOK
<1>10. EmbryosAreAlone'
  BY <1>2, <1>3 DEF Kernel, EmbryosAreAlone, Live
<1> QED
  BY <1>5, <1>6, <1>7, <1>8, <1>9, <1>10 DEF Kernel

LEMMA ThreadCreateKernel ==
  ASSUME Kernel, TypeOK', NEW c \in Cpus, ThreadCreate(c) PROVE Kernel'
<1>1. cpu[c] # Nobody /\ pc[cpu[c]] = "thread_create"
  BY DEF ThreadCreate, At
<1>2. PICK cur \in Slots : cur = cpu[c] /\ state[cur] = "RUNNING"
  BY <1>1, CurrentRuns
<1>3. PICK new \in Slots : new = np[cur] /\ state[new] = "EMBRYO"
  BY <1>1, <1>2, ProcTableAssumption
     DEF Kernel, TypeOK, Creators, Creating, ProcTableAssumption
<1>4. PICK m \in Slots : /\ m = mainthread[cur] /\ mainthread[m] = m
                         /\ state[m] \notin {"UNUSED", "EMBRYO", "ZOMBIE"}
  <2>1. PICK m \in Slots : /\ m = mainthread[cur] /\ mainthread[m] = m
                           /\ Live(m) /\ (m # cur => state[m] # "ZOMBIE")
    BY <1>2 DEF Kernel, ThreadsHaveMain, Live, TypeOK
  <2>2. state[m] # "EMBRYO"
    BY <1>2, <2>1 DEF Kernel, EmbryosAreAlone, Live
  <2> QED
    BY <1>2, <2>1, <2>2 DEF Live
<1>5. /\ mainthread'[new] = m
      /\ \A s \in Slots \ {new} : mainthread'[s] = mainthread[s]
      /\ UNCHANGED <<state, chan, cpu, np>>
  BY <1>2, <1>3, <1>4 DEF ThreadCreate, Group, Kernel, TypeOK
<1>6. /\ pc'[cur] = "thread_parent"
      /\ \A s \in Slots \ {cur} : pc'[s] = pc[s] /\ ptr'[s] = ptr[s]
  BY <1>2 DEF ThreadCreate, GoTo, Kernel, TypeOK
<1>7. OneCpuPerProcess'
  BY <1>5, CpusStay
<1>8. Places'
  BY <1>2, <1>5, <1>6 DEF Kernel, Places
<1>9. Creators'
  BY <1>1, <1>2, <1>5, <1>6 DEF Kernel, Creators, Creating, TypeOK
<1>10. Signallers'
  BY <1>2, <1>5, <1>6 DEF Kernel, Signallers, TypeOK
<1>11. \A s \in Slots : Live(s) /\ mainthread[s] = new => s = new
  BY <1>3 DEF Kernel, EmbryosAreAlone
<1>12. ThreadsHaveMain'
  BY <1>3, <1>4, <1>5, <1>11, ProcTableAssumption
     DEF Kernel, ThreadsHaveMain, Live, TypeOK, ProcTableAssumption
<1>13. EmbryosAreAlone'
  BY <1>3, <1>4, <1>5 DEF Kernel, EmbryosAreAlone, Live
<1> QED
  BY <1>7, <1>8, <1>9, <1>10, <1>12, <1>13 DEF Kernel

LEMMA ExitKernel ==
  ASSUME "join" \in Rules, Kernel, TypeOK', NEW c \in Cpus, Exit(c)
  PROVE  Kernel'
<1>1. cpu[c] # Nobody /\ pc[cpu[c]] = "user"
  BY DEF Exit, At
<1>2. PICK cur \in Slots : cur = cpu[c] /\ state[cur] = "RUNNING"
  BY <1>1, CurrentRuns
<1>3. PICK ch \in Slots \cup {Nobody} : ch = Waiter(cur)
  BY <1>2 DEF Waiter, Kernel, TypeOK
<1>4. PICK st \in [Slots -> States] : st = Woken(state, ch)
  BY WokenType DEF Kernel, TypeOK
<1>5. PICK others \in [Slots -> States] :
         /\ others = IF InitMustWake(cur) THEN Woken(st, InitProc) ELSE st
         /\ state' = [others EXCEPT ![cur] = "ZOMBIE"]
  <2>1. Woken(st, InitProc) \in [Slots -> States]
    BY WokenType
  <2> QED
    BY <1>2, <1>3, <1>4, <2>1 DEF Exit
<1>6. state'[cur] = "ZOMBIE"
  BY <1>2, <1>5
<1>7. ASSUME NEW s \in Slots \ {cur}
      PROVE  \/ state'[s] = state[s]
             \/ state[s] = "SLEEPING" /\ state'[s] = "RUNNABLE" /\ chan[s] \notin Nat
  <2>1. ch \notin Nat /\ InitProc \notin Nat
    BY ProcTableAssumption DEF ProcTableAssumption
  <2>2. st[s] = IF state[s] = "SLEEPING" /\ chan[s] = ch
                THEN "RUNNABLE" ELSE state[s]
    BY <1>4, WokenIs DEF Kernel, TypeOK
  <2>3. others[s] = st[s] \/ others[s] = IF st[s] = "SLEEPING" /\ chan[s] = InitProc
                                         THEN "RUNNABLE" ELSE st[s]
    BY <1>5, WokenIs
  <2>4. state'[s] = others[s]
    BY <1>5
  <2> QED
    BY <2>1, <2>2, <2>3, <2>4
<1>8. \A s \in Slots \ {cur} :
        \/ state'[s] = state[s]
        \/ state[s] = "SLEEPING" /\ state'[s] = "RUNNABLE" /\ Unsignalled(s)
  BY <1>7, ChannelSleepersOnly
<1>9. /\ Off(c) /\ UNCHANGED <<mainthread, chan, np, ptr>>
      /\ pc'[cur] = "zombie"
      /\ \A s \in Slots \ {cur} : pc'[s] = pc[s]
  BY <1>2 DEF Exit, GoTo, locals, Kernel, TypeOK
<1>10. OneCpuPerProcess'
  BY <1>1, <1>2, <1>6, <1>8, <1>9, CpuIsLeft
<1>11. Places' /\ Creators' /\ Signallers'
  <2>1. pc'[cur] \notin Creating \cup {"sigOneChan"}
    BY <1>9 DEF Creating
  <2> QED
    BY <1>2, <1>6, <1>8, <1>9, <2>1, CallersStay
<1>12. \A s \in Slots \ {cur} : Live(s) => mainthread[s] # cur
  BY <1>2 DEF Exit
<1>13. ThreadsHaveMain'
  BY <1>2, <1>6, <1>8, <1>9, <1>12 DEF Kernel, ThreadsHaveMain, Live, TypeOK
<1>14. EmbryosAreAlone'
  BY <1>2, <1>6, <1>8, <1>9 DEF Kernel, EmbryosAreAlone, Live
<1> QED
  BY <1>10, <1>11, <1>13, <1>14 DEF Kernel

(* A call that reaps one zombie and returns. *)
LEMMA ReapsKernel ==
  ASSUME Kernel, TypeOK', NEW c \in Cpus, cpu[c] # Nobody, NEW S,
         \A s \in S : s \in Slots /\ state[s] = "ZOMBIE",
         Clear(S), Return(c),
         \A s \in Slots \ S : mainthread'[s] = mainthread[s]
  PROVE  Kernel'
<1>1. PICK cur \in Slots : cur = cpu[c] /\ state[cur] = "RUNNING"
  BY CurrentRuns
<1>2. \A s \in Slots :
        \/ state'[s] = state[s] /\ mainthread'[s] = mainthread[s]
        \/ state[s] = "ZOMBIE" /\ state'[s] = "UNUSED"
  BY ClearIs
<1>3. /\ UNCHANGED cpu /\ pc'[cur] = "user"
      /\ \A s \in Slots \ {cur} : /\ pc'[s] = pc[s] /\ np'[s] = np[s]
                                  /\ ptr'[s] = ptr[s] /\ chan'[s] = chan[s]
  BY <1>1, ReturnsTo
<1>4. OneCpuPerProcess'
  BY <1>2, <1>3, CpusStay
<1>5. Places' /\ Creators' /\ Signallers'
  <2>1. pc'[cur] \notin Creating \cup {"sigOneChan", "zombie"}
    BY <1>3 DEF Creating
  <2> QED
    BY <1>1, <1>2, <1>3, <2>1, CallersStay
<1>6. ThreadsHaveMain' /\ EmbryosAreAlone'
  BY <1>2, GroupsStay
<1> QED
  BY <1>4, <1>5, <1>6 DEF Kernel

(* A call that finds nothing and returns, or goes to sleep. *)
LEMMA ReturnsKernel ==
  ASSUME Kernel, TypeOK', NEW c \in Cpus, cpu[c] # Nobody,
         Return(c), UNCHANGED <<state, mainthread>>
  PROVE  Kernel'
<1>1. PICK cur \in Slots : cur = cpu[c] /\ state[cur] = "RUNNING"
  BY CurrentRuns
<1>2. /\ UNCHANGED cpu /\ pc'[cur] = "user"
      /\ \A s \in Slots \ {cur} : /\ pc'[s] = pc[s] /\ np'[s] = np[s]
                                  /\ ptr'[s] = ptr[s] /\ chan'[s] = chan[s]
  BY <1>1, ReturnsTo
<1>3. OneCpuPerProcess'
  BY <1>2, CpusStay
<1>4. Places' /\ Creators' /\ Signallers'
  <2>1. pc'[cur] \notin Creating \cup {"sigOneChan", "zombie"}
    BY <1>2 DEF Creating
  <2> QED
    BY <1>1, <1>2, <2>1, CallersStay
<1>5. ThreadsHaveMain' /\ EmbryosAreAlone'
  BY GroupsStay
<1> QED
  BY <1>3, <1>4, <1>5 DEF Kernel

LEMMA SleepsKernel ==
  ASSUME Kernel, TypeOK', NEW c \in Cpus, cpu[c] # Nobody,
         NEW ch, NEW where \in {"wait", "waitpid", "thread_join", "sleepChan"},
         SleepOn(c, ch, where), UNCHANGED <<np, mainthread>>,
         \A s \in Slots \ {cpu[c]} : ptr'[s] = ptr[s]
  PROVE  Kernel'
<1>1. PICK cur \in Slots : cur = cpu[c] /\ state[cur] = "RUNNING"
  BY CurrentRuns
<1>2. /\ Off(c) /\ pc'[cur] = where /\ state'[cur] = "SLEEPING"
      /\ \A s \in Slots \ {cur} :
           pc'[s] = pc[s] /\ chan'[s] = chan[s] /\ state'[s] = state[s]
  BY <1>1, SleepsOn
<1>3. OneCpuPerProcess'
  BY <1>1, <1>2, CpuIsLeft
<1>4. Places' /\ Creators' /\ Signallers'
  <2>1. pc'[cur] \notin Creating \cup {"sigOneChan", "zombie"}
    BY <1>2 DEF Creating
  <2> QED
    BY <1>1, <1>2, <2>1, CallersStay
<1>5. ThreadsHaveMain' /\ EmbryosAreAlone'
  BY <1>1, <1>2, GroupsStay
<1> QED
  BY <1>3, <1>4, <1>5 DEF Kernel

LEMMA FailOrSleepKernel ==
  ASSUME Kernel, TypeOK', NEW c \in Cpus, cpu[c] # Nobody, NEW S,
         NEW where \in {"wait", "thread_join"}, NEW n, FailOrSleep(c, S, where, n)
  PROVE  Kernel'
<1>1. CASE S = {} \/ killed[cpu[c]]
  BY <1>1, ReturnsKernel DEF FailOrSleep
<1>2. CASE ~(S = {} \/ killed[cpu[c]])
  BY <1>2, SleepsKernel DEF FailOrSleep
<1> QED
  BY <1>1, <1>2

LEMMA WaitKernel ==
  ASSUME Kernel, TypeOK', NEW c \in Cpus, Wait(c) PROVE Kernel'
<1>1. cpu[c] # Nobody
  BY DEF Wait, Call, At
<1>2. ASSUME NEW S, FailOrSleep(c, S, "wait", 0) PROVE Kernel'
  BY <1>1, <1>2, FailOrSleepKernel
<1>3. ASSUME NEW z \in Slots, state[z] = "ZOMBIE", NEW S,
             S = {z} \cup {s \in Slots : mainthread[s] = z /\ Live(s)},
             Clear(S), mainthread' = On(mainthread, S, Nobody), Return(c)
      PROVE  Kernel'
  <2>1. \A s \in S : s \in Slots /\ state[s] = "ZOMBIE"
    BY <1>3, ZombiesAreAlone
  <2>2. \A s \in Slots \ S : mainthread'[s] = mainthread[s]
    BY <1>3 DEF On, Kernel, TypeOK
  <2> QED
    BY <1>1, <1>3, <2>1, <2>2, ReapsKernel
<1> QED
  BY <1>2, <1>3 DEF Wait, Zombies

LEMMA ThreadJoinKernel ==
  ASSUME Kernel, TypeOK', NEW c \in Cpus, NEW n, ThreadJoin(c, n) PROVE Kernel'
<1>1. cpu[c] # Nobody
  BY DEF ThreadJoin, Call, At
<1>2. ASSUME NEW S, FailOrSleep(c, S, "thread_join", n) PROVE Kernel'
  BY <1>1, <1>2, FailOrSleepKernel
<1>3. ASSUME NEW z \in Slots, state[z] = "ZOMBIE", Clear({z}),
             mainthread' = [mainthread EXCEPT ![z] = Nobody], Return(c)
      PROVE  Kernel'
  <2>1. \A s \in Slots \ {z} : mainthread'[s] = mainthread[s]
    BY <1>3 DEF Kernel, TypeOK
  <2> QED
    BY <1>1, <1>3, <2>1, ReapsKernel
<1> QED
  BY <1>2, <1>3 DEF ThreadJoin, Zombies

LEMMA WaitPidKernel ==
  ASSUME Kernel, TypeOK', NEW c \in Cpus, NEW s \in Slots, WaitPid(c, s)
  PROVE  Kernel'
<1>1. cpu[c] # Nobody
  BY DEF WaitPid, Call, At
<1>2. CASE Zombies({s}) # {}
  <2>1. state[s] = "ZOMBIE"
    BY <1>2 DEF Zombies
  <2> QED
    BY <1>1, <1>2, <2>1, ReapsKernel DEF WaitPid
<1>3. CASE Zombies({s}) = {}
  <2>1. /\ SleepOn(c, cpu[c], "waitpid") /\ UNCHANGED <<np, mainthread>>
        /\ \A t \in Slots \ {cpu[c]} : ptr'[t] = ptr[t]
    BY <1>1, <1>3 DEF WaitPid, Kernel, TypeOK
  <2> QED
    BY <1>1, <2>1, SleepsKernel
<1> QED
  BY <1>2, <1>3

(* Nobody changes places; sleepers that nobody signals may be woken.       *)
LEMMA WakesKernel ==
  ASSUME Kernel, TypeOK', NEW c \in Cpus, cpu[c] # Nobody,
         \A s \in Slots :
           \/ state'[s] = state[s]
           \/ state[s] = "SLEEPING" /\ state'[s] = "RUNNABLE" /\ Unsignalled(s),
         UNCHANGED <<mainthread, chan, cpu, pc, np, ptr>>
  PROVE  Kernel'
<1>1. PICK cur \in Slots : cur = cpu[c] /\ state[cur] = "RUNNING"
  BY CurrentRuns
<1>2. pc[cur] # "zombie"
  BY <1>1 DEF Kernel, Places
<1>3. OneCpuPerProcess'
  BY CpusStay
<1>4. Places' /\ Creators' /\ Signallers'
  BY <1>1, <1>2, CallersStay
<1>5. ThreadsHaveMain' /\ EmbryosAreAlone'
  BY GroupsStay
<1> QED
  BY <1>3, <1>4, <1>5 DEF Kernel

LEMMA KillKernel ==
  ASSUME "signal" \in Rules, Kernel, TypeOK', NEW c \in Cpus, NEW n, Kill(c, n)
  PROVE  Kernel'
<1>1. cpu[c] # Nobody
  BY DEF Kill, Call, At
<1>2. PICK s \in Slots : /\ NotBeingSignalled({s})
                         /\ state' = [state EXCEPT ![s] = AfterKill(s)]
  BY DEF Kill
<1>3. Unsignalled(s)
  BY <1>2 DEF NotBeingSignalled, Unsignalled
<1>4. \A t \in Slots :
        \/ state'[t] = state[t]
        \/ state[t] = "SLEEPING" /\ state'[t] = "RUNNABLE" /\ Unsignalled(t)
  BY <1>2, <1>3 DEF AfterKill, Kernel, TypeOK
<1> QED
  BY <1>1, <1>4, WakesKernel DEF Kill, locals

LEMMA SigChanKernel ==
  ASSUME "signal" \in Rules, Kernel, TypeOK', NEW c \in Cpus, SigChan(c)
  PROVE  Kernel'
<1>1. cpu[c] # Nobody
  BY DEF SigChan, Call, At
<1>2. PICK ch \in channels :
        /\ NotBeingSignalled({s \in Slots : chan[s] = ch})
        /\ state' = Woken(state, ch)
  BY DEF SigChan
<1>3. \A t \in Slots : chan[t] = ch => Unsignalled(t)
  BY <1>2 DEF NotBeingSignalled, Unsignalled
<1>4. \A t \in Slots :
        \/ state'[t] = state[t]
        \/ state[t] = "SLEEPING" /\ state'[t] = "RUNNABLE" /\ Unsignalled(t)
  BY <1>2, <1>3, WokenIs DEF Kernel, TypeOK
<1> QED
  BY <1>1, <1>4, WakesKernel DEF SigChan, locals

LEMMA GetChannelKernel ==
  ASSUME Kernel, TypeOK', NEW c \in Cpus, GetChannel(c) PROVE Kernel'
<1>1. cpu[c] # Nobody
  BY DEF GetChannel, Call, At
<1>2. PICK cur \in Slots : cur = cpu[c] /\ state[cur] = "RUNNING"
  BY <1>1, CurrentRuns
<1>3. /\ UNCHANGED <<state, mainthread, chan, cpu, np, ptr>>
      /\ pc'[cur] = "getChannel"
      /\ \A s \in Slots \ {cur} : pc'[s] = pc[s]
  BY <1>2 DEF GetChannel, GoTo, table, Kernel, TypeOK
<1>4. OneCpuPerProcess'
  BY <1>3, CpusStay
<1>5. Places' /\ Creators' /\ Signallers'
  <2>1. pc'[cur] \notin Creating \cup {"sigOneChan", "zombie"}
    BY <1>3 DEF Creating
  <2> QED
    BY <1>2, <1>3, <2>1, CallersStay
<1>6. ThreadsHaveMain' /\ EmbryosAreAlone'
  BY <1>3, GroupsStay
<1> QED
  BY <1>4, <1>5, <1>6 DEF Kernel

LEMMA SleepChanKernel ==
  ASSUME Kernel, TypeOK', NEW c \in Cpus, SleepChan(c) PROVE Kernel'
<1>1. cpu[c] # Nobody
  BY DEF SleepChan, Call, At
<1>2. PICK ch : SleepOn(c, ch, "sleepChan")
  BY DEF SleepChan
<1> QED
  BY <1>1, <1>2, SleepsKernel DEF SleepChan, locals

LEMMA SigOneChanKernel ==
  ASSUME "signal" \in Rules, Kernel, TypeOK', NEW c \in Cpus, SigOneChan(c)
  PROVE  Kernel'
<1>1. cpu[c] # Nobody
  BY DEF SigOneChan, Call, At
<1>2. PICK cur \in Slots : cur = cpu[c] /\ state[cur] = "RUNNING"
  BY <1>1, CurrentRuns
<1>3. PICK ch \in channels, s \in Slots :
        /\ state[s] = "SLEEPING" /\ chan[s] = ch
        /\ NotBeingSignalled({s})
        /\ ptr' = [ptr EXCEPT ![cur] = s]
  BY <1>2 DEF SigOneChan
<1>4. /\ UNCHANGED <<state, mainthread, chan, cpu, np>>
      /\ pc'[cur] = "sigOneChan" /\ ptr'[cur] = s
      /\ \A t \in Slots \ {cur} : pc'[t] = pc[t] /\ ptr'[t] = ptr[t]
  BY <1>2, <1>3 DEF SigOneChan, GoTo, table, Kernel, TypeOK
<1>5. \A t \in Slots : pc[t] = "sigOneChan" => ptr[t] # s
  BY <1>3 DEF NotBeingSignalled
<1>6. OneCpuPerProcess'
  BY <1>4, CpusStay
<1>7. Places' /\ Creators'
  BY <1>2, <1>4 DEF Kernel, Places, Creators, Creating
<1>8. Signallers'
  <2>1. /\ state[s] = "SLEEPING" /\ chan[s] \in Nat /\ s \in Slots
        /\ state' = state /\ chan' = chan
    BY <1>3, <1>4 DEF Kernel, TypeOK
  <2>2. ASSUME NEW q \in Slots, pc'[q] = "sigOneChan"
        PROVE  /\ state'[ptr'[q]] = "SLEEPING"
               /\ chan'[ptr'[q]] \in Nat
               /\ q # cur => pc[q] = "sigOneChan" /\ ptr'[q] = ptr[q]
                             /\ ptr'[q] # s
    <3>1. CASE q = cur
      BY <1>4, <2>1, <3>1
    <3>2. CASE q # cur
      <4>1. pc[q] = "sigOneChan" /\ ptr'[q] = ptr[q]
        BY <1>4, <2>2, <3>2
      <4>2. state[ptr[q]] = "SLEEPING" /\ chan[ptr[q]] \in Nat
        BY <4>1 DEF Kernel, Signallers
      <4> QED
        BY <1>5, <2>1, <4>1, <4>2
    <3> QED
      BY <3>1, <3>2
  <2>3. ASSUME NEW q \in Slots, NEW t \in Slots,
               pc'[q] = "sigOneChan", pc'[t] = "sigOneChan", ptr'[t] = ptr'[q]
        PROVE  t = q
    <3>1. CASE q = cur \/ t = cur
      BY <1>4, <2>2, <2>3, <3>1
    <3>2. CASE q # cur /\ t # cur
      BY <2>2, <2>3, <3>2 DEF Kernel, Signallers
    <3> QED
      BY <3>1, <3>2
  <2> QED
    BY <2>2, <2>3 DEF Signallers
<1>9. ThreadsHaveMain' /\ EmbryosAreAlone'
  BY <1>4, GroupsStay
<1> QED
  BY <1>6, <1>7, <1>8, <1>9 DEF Kernel

(* What is found asleep by the scan is asleep at the store.                *)
LEMMA SigOneChanStoresKernel ==
  ASSUME Kernel, TypeOK', NEW c \in Cpus, SigOneChanStores(c) PROVE Kernel'
<1>1. cpu[c] # Nobody /\ pc[cpu[c]] = "sigOneChan" /\ Return(c)
  BY DEF SigOneChanStores, At
<1>2. PICK cur \in Slots : cur = cpu[c] /\ state[cur] = "RUNNING"
  BY <1>1, CurrentRuns
<1>3. PICK s \in Slots :
        /\ s = ptr[cur] /\ state[s] = "SLEEPING"
        /\ \A t \in Slots : pc[t] = "sigOneChan" /\ ptr[t] = s => t = cur
  BY <1>1, <1>2, ProcTableAssumption
     DEF Kernel, TypeOK, Signallers, ProcTableAssumption
<1>4. /\ state'[s] = "RUNNABLE" /\ UNCHANGED mainthread
      /\ \A t \in Slots \ {s} : state'[t] = state[t]
  BY <1>2, <1>3 DEF SigOneChanStores, Kernel, TypeOK
<1>5. /\ UNCHANGED cpu /\ pc'[cur] = "user"
      /\ \A t \in Slots \ {cur} : /\ pc'[t] = pc[t] /\ np'[t] = np[t]
                                  /\ ptr'[t] = ptr[t] /\ chan'[t] = chan[t]
  BY <1>1, <1>2, ReturnsTo
<1>6. OneCpuPerProcess'
  BY <1>3, <1>4, <1>5, CpusStay
<1>7. Places'
  BY <1>2, <1>3, <1>4, <1>5 DEF Kernel, Places
<1>8. Creators'
  BY <1>2, <1>3, <1>4, <1>5 DEF Kernel, Creators, Creating, TypeOK
<1>9. Signallers'
  BY <1>2, <1>3, <1>4, <1>5 DEF Kernel, Signallers, TypeOK
<1>10. ThreadsHaveMain' /\ EmbryosAreAlone'
  BY <1>3, <1>4, GroupsStay
<1> QED
  BY <1>6, <1>7, <1>8, <1>9, <1>10 DEF Kernel

LEMMA KernelStep ==
  ASSUME "join" \in Rules, "signal" \in Rules, Kernel, [Next]_vars
  PROVE  Kernel'
<1>1. TypeOK'
  BY TypeStep DEF Kernel
<1>2. ASSUME NEW c \in Cpus, Scheduler(c) PROVE Kernel'
  BY <1>1, <1>2, SchedulerKernel
<1>3. ASSUME NEW c \in Cpus, Yield(c) PROVE Kernel'
  BY <1>1, <1>3, YieldKernel
<1>4. ASSUME NEW c \in Cpus, Lifecycle(c) PROVE Kernel'
  <2>1. CASE Fork(c)
    BY <1>1, <2>1, PublishKernel DEF Fork, At, Creating
  <2>2. CASE ThreadStart(c)
    BY <1>1, <2>2, PublishKernel DEF ThreadStart, At, Creating
  <2> QED
    BY <1>1, <1>4, <2>1, <2>2, AllocProcKernel, AllocFailedKernel,
       ThreadCreateKernel, ExitKernel DEF Lifecycle
<1>5. ASSUME NEW c \in Cpus, Waiting(c) PROVE Kernel'
  BY <1>1, <1>5, WaitKernel, ThreadJoinKernel, WaitPidKernel DEF Waiting
<1>6. ASSUME NEW c \in Cpus, Signalling(c) PROVE Kernel'
  <2>1. CASE GotChannel(c)
    BY <1>1, <2>1, ReturnsKernel DEF GotChannel, At
  <2>2. CASE SleepChanReturns(c)
    BY <1>1, <2>2, ReturnsKernel DEF SleepChanReturns, At
  <2> QED
    BY <1>1, <1>6, <2>1, <2>2, KillKernel, GetChannelKernel, SleepChanKernel,
       SigChanKernel, SigOneChanKernel, SigOneChanStoresKernel DEF Signalling
<1>7. CASE UNCHANGED vars
  BY <1>7 DEF vars, table, locals, Kernel, TypeOK, OneCpuPerProcess, Places,
              Creators, Signallers, ThreadsHaveMain, EmbryosAreAlone, Live, ghosts
<1> QED
  BY <1>2, <1>3, <1>4, <1>5, <1>6, <1>7 DEF Next

LEMMA KernelAlways ==
  ASSUME "join" \in Rules, "signal" \in Rules PROVE Spec => []Kernel
<1>1. Kernel /\ [Next]_vars => Kernel'
  BY KernelStep
<1> QED
  BY <1>1, KernelInit, PTL DEF Spec

(* No process runs on two CPUs, and RUNNING are those that run, under the  *)
(* rules "join" and "signal".                                              *)
THEOREM OneCpu ==
  ASSUME "join" \in Rules, "signal" \in Rules PROVE Spec => []Invariants
<1>1. Kernel => Invariants
  BY DEF Kernel, Invariants
<1> QED
  BY <1>1, KernelAlways, PTL

(* A thread's address space outlives it, under the same rules.             *)
THEOREM MainThreadsStay ==
  ASSUME "join" \in Rules, "signal" \in Rules PROVE Spec => []ThreadsHaveMain
<1>1. Kernel => ThreadsHaveMain
  BY DEF Kernel
<1> QED
  BY <1>1, KernelAlways, PTL

-----------------------------------------------------------------------------
(* What a step can do to a slot.                                           *)
Moves == {<<"RUNNABLE", "RUNNING">>, <<"RUNNING", "RUNNABLE">>,
          <<"RUNNING", "SLEEPING">>, <<"SLEEPING", "RUNNABLE">>,
          <<"EMBRYO", "UNUSED">>, <<"EMBRYO", "RUNNABLE">>}

Moved(s) ==
  /\ \/ state'[s] = state[s]
     \/ <<state[s], state'[s]>> \in Moves
     \/ state[s] = "RUNNING" /\ state'[s] = "ZOMBIE" /\ s # InitProc
  /\ pid'[s] = pid[s] /\ killed'[s] = killed[s]

Taken(s) == state[s] = "UNUSED" /\ state'[s] = "EMBRYO" /\ killed'[s] = killed[s]

Reaped(s) == /\ state[s] = "ZOMBIE" /\ state'[s] = "UNUSED"
             /\ pid'[s] = 0 /\ killed'[s] = FALSE

Marked(s) ==
  /\ \/ state'[s] = state[s]
     \/ state[s] = "SLEEPING" /\ state'[s] = "RUNNABLE"
  /\ pid'[s] = pid[s] /\ pid[s] \in KillPids /\ pid[s] \in victims'
  /\ "pids" \in Rules => state[s] \notin {"UNUSED", "EMBRYO"}

Effect == /\ victims \subseteq victims'
          /\ \A s \in Slots : Moved(s) \/ Taken(s) \/ Reaped(s) \/ Marked(s)

LEMMA ReapsEffect ==
  ASSUME Kernel, NEW S, \A s \in S : s \in Slots /\ state[s] = "ZOMBIE",
         Clear(S), UNCHANGED victims
  PROVE  Effect
<1>1. ASSUME NEW s \in Slots PROVE Moved(s) \/ Reaped(s)
  BY ClearIs DEF Moved, Reaped
<1> QED
  BY <1>1 DEF Effect

LEMMA SleepsEffect ==
  ASSUME Kernel, NEW c \in Cpus, cpu[c] # Nobody, NEW ch, NEW where,
         SleepOn(c, ch, where), UNCHANGED <<pid, killed, victims>>
  PROVE  Effect
<1>1. PICK cur \in Slots : cur = cpu[c] /\ state[cur] = "RUNNING"
  BY CurrentRuns
<1>2. /\ state'[cur] = "SLEEPING"
      /\ \A s \in Slots \ {cur} : state'[s] = state[s]
  BY <1>1, SleepsOn
<1>3. \A s \in Slots : Moved(s)
  BY <1>1, <1>2 DEF Moved, Moves
<1> QED
  BY <1>3 DEF Effect

LEMMA WakesEffect ==
  ASSUME \A s \in Slots : \/ state'[s] = state[s]
                          \/ <<state[s], state'[s]>> \in Moves,
         UNCHANGED <<pid, killed, victims>>
  PROVE  Effect
  BY DEF Effect, Moved

LEMMA FailOrSleepEffect ==
  ASSUME Kernel, NEW c \in Cpus, cpu[c] # Nobody, NEW S, NEW where, NEW n,
         FailOrSleep(c, S, where, n), UNCHANGED victims
  PROVE  Effect
<1>1. CASE S = {} \/ killed[cpu[c]]
  BY <1>1, WakesEffect DEF FailOrSleep
<1>2. CASE ~(S = {} \/ killed[cpu[c]])
  BY <1>2, SleepsEffect DEF FailOrSleep
<1> QED
  BY <1>1, <1>2

(* exit wakes sleepers, and the caller is a zombie.                        *)
LEMMA ExitWakes ==
  ASSUME Kernel, NEW c \in Cpus, Exit(c), NEW cur \in Slots, cur = cpu[c]
  PROVE  /\ state'[cur] = "ZOMBIE"
         /\ \A s \in Slots \ {cur} :
              \/ state'[s] = state[s]
              \/ state[s] = "SLEEPING" /\ state'[s] = "RUNNABLE"
<1>3. PICK ch : ch = Waiter(cur)
  OBVIOUS
<1>4. PICK st \in [Slots -> States] : st = Woken(state, ch)
  BY WokenType DEF Kernel, TypeOK
<1>5. PICK others \in [Slots -> States] :
         /\ others = IF InitMustWake(cur) THEN Woken(st, InitProc) ELSE st
         /\ state' = [others EXCEPT ![cur] = "ZOMBIE"]
  <2>1. Woken(st, InitProc) \in [Slots -> States]
    BY WokenType
  <2> QED
    BY <1>3, <1>4, <2>1 DEF Exit
<1>6. ASSUME NEW s \in Slots \ {cur}
      PROVE  \/ state'[s] = state[s]
             \/ state[s] = "SLEEPING" /\ state'[s] = "RUNNABLE"
  <2>1. st[s] = IF state[s] = "SLEEPING" /\ chan[s] = ch
                THEN "RUNNABLE" ELSE state[s]
    BY <1>4, WokenIs DEF Kernel, TypeOK
  <2>2. others[s] = st[s] \/ others[s] = IF st[s] = "SLEEPING" /\ chan[s] = InitProc
                                         THEN "RUNNABLE" ELSE st[s]
    BY <1>5, WokenIs
  <2>3. state'[s] = others[s]
    BY <1>5
  <2> QED
    BY <2>1, <2>2, <2>3
<1>7. state'[cur] = "ZOMBIE"
  BY <1>5
<1> QED
  BY <1>6, <1>7

LEMMA ExitEffect ==
  ASSUME Kernel, NEW c \in Cpus, Exit(c) PROVE Effect
<1>1. PICK cur \in Slots : cur = cpu[c] /\ state[cur] = "RUNNING"
  BY CurrentRuns DEF Exit, At
<1>2. /\ state'[cur] = "ZOMBIE"
      /\ \A s \in Slots \ {cur} :
           \/ state'[s] = state[s]
           \/ state[s] = "SLEEPING" /\ state'[s] = "RUNNABLE"
  BY <1>1, ExitWakes
<1>3. cur # InitProc /\ UNCHANGED <<pid, killed, victims>>
  BY <1>1 DEF Exit, ghosts
<1>4. \A s \in Slots : Moved(s)
  BY <1>1, <1>2, <1>3 DEF Moved, Moves
<1> QED
  BY <1>3, <1>4 DEF Effect

LEMMA CreationEffect ==
  ASSUME Kernel, NEW c \in Cpus, AllocProc(c) \/ AllocFailed(c) \/ Fork(c)
                                   \/ ThreadCreate(c) \/ ThreadStart(c)
  PROVE  Effect
<1>1. PICK cur \in Slots : cur = cpu[c] /\ state[cur] = "RUNNING"
  BY CurrentRuns DEF AllocProc, AllocFailed, Fork, ThreadCreate, ThreadStart, Call, At
<1>2. CASE AllocProc(c)
  <2>1. PICK new \in Slots : /\ state[new] = "UNUSED"
                             /\ state' = [state EXCEPT ![new] = "EMBRYO"]
                             /\ pid' = [pid EXCEPT ![new] = nextpid]
    BY <1>2 DEF AllocProc
  <2>2. UNCHANGED <<killed, victims>>
    BY <1>2 DEF AllocProc, ghosts
  <2>3. \A s \in Slots : Moved(s) \/ Taken(s)
    BY <2>1, <2>2 DEF Moved, Taken, Kernel, TypeOK
  <2> QED
    BY <2>2, <2>3 DEF Effect
<1>3. CASE ThreadCreate(c)
  BY <1>3, WakesEffect DEF ThreadCreate, ghosts
<1>4. CASE AllocFailed(c) \/ Fork(c) \/ ThreadStart(c)
  <2>1. pc[cur] \in Creating
    BY <1>1, <1>4 DEF AllocFailed, Fork, ThreadStart, At, Creating
  <2>2. PICK new \in Slots : new = np[cur] /\ state[new] = "EMBRYO"
    BY <1>1, <2>1, ProcTableAssumption
       DEF Kernel, TypeOK, Creators, Creating, ProcTableAssumption
  <2>3. /\ \/ state' = [state EXCEPT ![new] = "UNUSED"]
           \/ state' = [state EXCEPT ![new] = "RUNNABLE"]
        /\ UNCHANGED <<pid, killed, victims>>
    BY <1>1, <1>4, <2>2 DEF AllocFailed, Fork, ThreadStart, Publish, ghosts
  <2>4. \A s \in Slots : \/ state'[s] = state[s]
                         \/ <<state[s], state'[s]>> \in Moves
    BY <2>2, <2>3 DEF Moves, Kernel, TypeOK
  <2> QED
    BY <2>3, <2>4, WakesEffect
<1> QED
  BY <1>2, <1>3, <1>4

LEMMA WaitingEffect ==
  ASSUME Kernel, NEW c \in Cpus, Waiting(c) PROVE Effect
<1>1. CASE Wait(c)
  <2>1. cpu[c] # Nobody /\ UNCHANGED victims
    BY <1>1 DEF Wait, WaitFrame, ghosts, Call, At
  <2>2. ASSUME NEW S, FailOrSleep(c, S, "wait", 0) PROVE Effect
    BY <2>1, <2>2, FailOrSleepEffect
  <2>3. ASSUME NEW z \in Slots, state[z] = "ZOMBIE", NEW S,
               S = {z} \cup {s \in Slots : mainthread[s] = z /\ Live(s)}, Clear(S)
        PROVE  Effect
    <3>1. \A s \in S : s \in Slots /\ state[s] = "ZOMBIE"
      BY <2>3, ZombiesAreAlone
    <3> QED
      BY <2>1, <2>3, <3>1, ReapsEffect
  <2> QED
    BY <1>1, <2>2, <2>3 DEF Wait, Zombies
<1>2. ASSUME NEW n, ThreadJoin(c, n) PROVE Effect
  <2>1. cpu[c] # Nobody /\ UNCHANGED victims
    BY <1>2 DEF ThreadJoin, WaitFrame, ghosts, Call, At
  <2>2. ASSUME NEW S, FailOrSleep(c, S, "thread_join", n) PROVE Effect
    BY <2>1, <2>2, FailOrSleepEffect
  <2>3. ASSUME NEW z \in Slots, state[z] = "ZOMBIE", Clear({z}) PROVE Effect
    BY <2>1, <2>3, ReapsEffect
  <2> QED
    BY <1>2, <2>2, <2>3 DEF ThreadJoin, Zombies
<1>3. ASSUME NEW s \in Slots, WaitPid(c, s) PROVE Effect
  <2>1. cpu[c] # Nobody /\ UNCHANGED victims
    BY <1>3 DEF WaitPid, WaitFrame, ghosts, Call, At
  <2>2. CASE Zombies({s}) # {}
    <3>1. state[s] = "ZOMBIE" /\ Clear({s})
      BY <1>3, <2>2 DEF WaitPid, Zombies
    <3> QED
      BY <2>1, <3>1, ReapsEffect
  <2>3. CASE Zombies({s}) = {}
    BY <1>3, <2>1, <2>3, SleepsEffect DEF WaitPid
  <2> QED
    BY <2>2, <2>3
<1> QED
  BY <1>1, <1>2, <1>3 DEF Waiting

LEMMA SignallingEffect ==
  ASSUME Kernel, NEW c \in Cpus, Signalling(c) PROVE Effect
<1>1. ASSUME NEW n \in KillPids, Kill(c, n) PROVE Effect
  <2>1. PICK s \in Slots :
          /\ pid[s] = n
          /\ "pids" \in Rules => state[s] \notin {"UNUSED", "EMBRYO"}
          /\ killed' = [killed EXCEPT ![s] = TRUE]
          /\ state' = [state EXCEPT ![s] = AfterKill(s)]
    BY <1>1 DEF Kill
  <2>2. UNCHANGED pid /\ victims' = victims \cup {n}
    BY <1>1 DEF Kill
  <2>3. \A t \in Slots \ {s} : Moved(t)
    BY <2>1, <2>2 DEF Moved, Kernel, TypeOK
  <2>4. Marked(s)
    <3>1. state'[s] = AfterKill(s) /\ pid[s] \in KillPids /\ pid[s] \in victims'
      BY <2>1, <2>2 DEF Kernel, TypeOK
    <3> QED
      BY <2>1, <2>2, <3>1 DEF Marked, AfterKill
  <2> QED
    BY <2>2, <2>3, <2>4 DEF Effect
<1>2. CASE GetChannel(c) \/ GotChannel(c) \/ SleepChanReturns(c) \/ SigOneChan(c)
  BY <1>2, WakesEffect
     DEF GetChannel, GotChannel, SleepChanReturns, SigOneChan, table, ghosts
<1>3. CASE SleepChan(c)
  <2>1. PICK ch : SleepOn(c, ch, "sleepChan")
    BY <1>3 DEF SleepChan
  <2> QED
    BY <1>3, <2>1, SleepsEffect DEF SleepChan, Call, At, ghosts
<1>4. CASE SigChan(c)
  <2>1. PICK ch : state' = Woken(state, ch)
    BY <1>4 DEF SigChan
  <2>2. \A t \in Slots : \/ state'[t] = state[t]
                         \/ <<state[t], state'[t]>> \in Moves
    BY <2>1, WokenIs DEF Moves, Kernel, TypeOK
  <2> QED
    BY <1>4, <2>2, WakesEffect DEF SigChan, ghosts
<1>5. CASE SigOneChanStores(c)
  <2>1. cpu[c] # Nobody /\ pc[cpu[c]] = "sigOneChan"
    BY <1>5 DEF SigOneChanStores, At
  <2>2. PICK cur \in Slots : cur = cpu[c]
    BY <2>1, CurrentRuns
  <2>3. PICK s \in Slots : s = ptr[cur] /\ state[s] = "SLEEPING"
    BY <2>1, <2>2, ProcTableAssumption
       DEF Kernel, TypeOK, Signallers, ProcTableAssumption
  <2>4. \A t \in Slots : \/ state'[t] = state[t]
                         \/ <<state[t], state'[t]>> \in Moves
    BY <1>5, <2>2, <2>3 DEF SigOneChanStores, Moves, Kernel, TypeOK
  <2> QED
    BY <1>5, <2>4, WakesEffect DEF SigOneChanStores, ghosts
<1> QED
  BY <1>1, <1>2, <1>3, <1>4, <1>5 DEF Signalling

LEMMA StepEffect ==
  ASSUME Kernel, [Next]_vars PROVE Effect
<1>1. ASSUME NEW c \in Cpus, Scheduler(c) PROVE Effect
  <2>1. \A t \in Slots : \/ state'[t] = state[t]
                         \/ <<state[t], state'[t]>> \in Moves
    BY <1>1 DEF Scheduler, Moves, Kernel, TypeOK
  <2> QED
    BY <1>1, <2>1, WakesEffect DEF Scheduler, ghosts
<1>2. ASSUME NEW c \in Cpus, Yield(c) PROVE Effect
  <2>1. \A t \in Slots : \/ state'[t] = state[t]
                         \/ <<state[t], state'[t]>> \in Moves
    BY <1>2 DEF Yield, Moves, Kernel, TypeOK
  <2> QED
    BY <1>2, <2>1, WakesEffect DEF Yield, ghosts
<1>3. ASSUME NEW c \in Cpus, Lifecycle(c) PROVE Effect
  BY <1>3, CreationEffect, ExitEffect DEF Lifecycle
<1>4. CASE UNCHANGED vars
  BY <1>4, WakesEffect DEF vars, table, ghosts
<1> QED
  BY <1>1, <1>2, <1>3, <1>4, WaitingEffect, SignallingEffect DEF Next

(* A process that has exited stays a zombie until it is reaped, under the  *)
(* rules "join" and "signal": panic("zombie exit") cannot be reached.      *)
THEOREM ExitIsFinal ==
  ASSUME "join" \in Rules, "signal" \in Rules PROVE Spec => ZombieIsFinal
<1>1. ASSUME Kernel, [Next]_vars
      PROVE  [\A s \in Slots : state[s] = "ZOMBIE" =>
                state'[s] \in {"ZOMBIE", "UNUSED"}]_vars
  BY <1>1, StepEffect DEF Effect, Moved, Moves, Taken, Reaped, Marked
<1>2. Kernel /\ [Next]_vars => [\A s \in Slots : state[s] = "ZOMBIE" =>
                                  state'[s] \in {"ZOMBIE", "UNUSED"}]_vars
  BY <1>1
<1> QED
  BY <1>2, KernelAlways, PTL DEF Spec, ZombieIsFinal

(* init never exits, keeps its pid and is not killed.                      *)
InitLives ==
  /\ state[InitProc] \in {"RUNNABLE", "RUNNING", "SLEEPING"}
  /\ pid[InitProc] = 1
  /\ ~killed[InitProc]

LEMMA InitLivesStep ==
  ASSUME 1 \notin KillPids, Kernel, InitLives, [Next]_vars
  PROVE  InitLives'
<1>1. InitProc \in Slots
  BY ProcTableAssumption DEF ProcTableAssumption
<1>2. Moved(InitProc) \/ Taken(InitProc) \/ Reaped(InitProc) \/ Marked(InitProc)
  BY <1>1, StepEffect DEF Effect
<1>3. Moved(InitProc)
  BY <1>2 DEF InitLives, Taken, Reaped, Marked
<1> QED
  BY <1>3 DEF InitLives, Moved, Moves

(* Nothing panics: a zombie is not switched to, channels are not pids and  *)
(* init does not exit, as long as the programs keep the rules "join", "ids"*)
(* and "signal" and do not kill init.                                      *)
THEOREM PanicsNever ==
  ASSUME "join" \in Rules, "ids" \in Rules, "signal" \in Rules,
         1 \notin KillPids
  PROVE  Spec => []NoPanic
<1>1. Init => InitLives
  BY ProcTableAssumption DEF Init, InitLives, ProcTableAssumption
<1>2. Kernel /\ InitLives /\ [Next]_vars => InitLives'
  BY InitLivesStep
<1>3. Kernel => ZombiesNeverRun
  BY DEF Kernel, ZombiesNeverRun, At, OneCpuPerProcess, Places, TypeOK
<1>4. Ids => ChannelsAreNotPids
  BY DEF Ids, ChannelsAreNotPids, IsPid
<1>5. Kernel /\ InitLives /\ Ids => NoPanic
  BY <1>3, <1>4 DEF NoPanic, InitLives
<1> QED
  BY <1>1, <1>2, <1>5, KernelAlways, IdsAlways, PTL DEF Spec

(* Only processes that a kill named are marked as killed, when the numbers *)
(* given to kill are pids of processes that have been created.             *)
Marks ==
  \A s \in Slots : killed[s] =>
    state[s] \notin {"UNUSED", "EMBRYO"} /\ pid[s] \in victims

LEMMA MarksStep ==
  ASSUME "pids" \in Rules, Kernel, Marks, [Next]_vars
  PROVE  Marks'
<1>1. Effect
  BY StepEffect
<1> SUFFICES ASSUME NEW s \in Slots, killed'[s]
             PROVE  state'[s] \notin {"UNUSED", "EMBRYO"} /\ pid'[s] \in victims'
  BY DEF Marks
<1>2. CASE Moved(s)
  <2>1. killed[s] /\ pid'[s] = pid[s]
    BY <1>2 DEF Moved
  <2>2. state[s] \notin {"UNUSED", "EMBRYO"} /\ pid[s] \in victims
    BY <2>1 DEF Marks
  <2> QED
    BY <1>1, <1>2, <2>1, <2>2 DEF Effect, Moved, Moves
<1>3. CASE Taken(s)
  <2>1. killed[s] /\ state[s] = "UNUSED"
    BY <1>3 DEF Taken
  <2> QED
    BY <2>1 DEF Marks
<1>4. CASE Reaped(s)
  BY <1>4 DEF Reaped
<1>5. CASE Marked(s)
  BY <1>5 DEF Marked
<1> QED
  BY <1>1, <1>2, <1>3, <1>4, <1>5 DEF Effect

(* "Kill the process with the given pid" (proc.c): the same as a property. *)
THEOREM KillsHit ==
  ASSUME "join" \in Rules, "signal" \in Rules, "pids" \in Rules
  PROVE  Spec => []KillHitsItsTarget
<1>1. Init => Marks
  BY DEF Init, Marks
<1>2. Kernel /\ Marks /\ [Next]_vars => Marks'
  BY MarksStep
<1>3. Marks => KillHitsItsTarget
  BY DEF Marks, KillHitsItsTarget
<1> QED
  BY <1>1, <1>2, <1>3, KernelAlways, PTL DEF Spec

-----------------------------------------------------------------------------
(* Exits and those who wait for them.  A process sleeps in a waiting call  *)
(* on its own slot, which is where exit looks for it; the child waitpid has*)
(* found stays a child of its caller and a main thread, so that its exit   *)
(* wakes the caller; and parents do not leave before they have handed over *)
(* their children.                                                         *)
Active == {"RUNNABLE", "RUNNING", "SLEEPING"}

InitIsActive == state[InitProc] \in Active

ParentsAreActive ==
  \A s \in Slots \ {InitProc} :
    state[s] \notin {"UNUSED", "EMBRYO"} /\ mainthread[s] = s =>
      parent[s] \in Slots /\ parent[s] # s /\ state[parent[s]] \in Active

NewHaveNoParent ==
  \A s \in Slots : state[s] \in {"UNUSED", "EMBRYO"} => parent[s] = Nobody

WaitPidHasChild ==
  \A p \in Slots : pc[p] = "waitpid" =>
    ptr[p] \in Slots /\ parent[ptr[p]] = p /\ mainthread[ptr[p]] = ptr[p]

ThreadsAreNoMain ==
  \A s \in Slots : pc[s] = "thread_parent" => mainthread[np[s]] # np[s]

WaitersSleepOnThemselves ==
  \A p \in Slots :
    state[p] = "SLEEPING" /\ pc[p] \in {"wait", "waitpid", "thread_join"} =>
      chan[p] = p

Waiters ==
  /\ InitIsActive
  /\ ParentsAreActive
  /\ NewHaveNoParent
  /\ WaitPidHasChild
  /\ ThreadsAreNoMain
  /\ WaitersSleepOnThemselves
  /\ NoMissedExit

LEMMA WaitersInit == Init => Waiters
<1> SUFFICES ASSUME Init PROVE Waiters
  OBVIOUS
<1> USE ProcTableAssumption DEF ProcTableAssumption
<1>1. InitIsActive /\ ParentsAreActive /\ NewHaveNoParent
  BY DEF Init, InitIsActive, ParentsAreActive, NewHaveNoParent, Active
<1>2. WaitPidHasChild /\ ThreadsAreNoMain
  BY DEF Init, WaitPidHasChild, ThreadsAreNoMain
<1>3. WaitersSleepOnThemselves /\ NoMissedExit
  BY DEF Init, WaitersSleepOnThemselves, NoMissedExit
<1> QED
  BY <1>1, <1>2, <1>3 DEF Waiters

LEMMA InitIsActiveStep ==
  ASSUME Kernel, InitIsActive, [Next]_vars PROVE InitIsActive'
<1>1. InitProc \in Slots
  BY ProcTableAssumption DEF ProcTableAssumption
<1>2. Moved(InitProc) \/ Taken(InitProc) \/ Reaped(InitProc) \/ Marked(InitProc)
  BY <1>1, StepEffect DEF Effect
<1> QED
  BY <1>2 DEF InitIsActive, Active, Moved, Moves, Taken, Reaped, Marked

(* Nobody exits, is created or is reaped, and nobody starts to wait.       *)
LEMMA WaitersStay ==
  ASSUME Kernel, Waiters, InitIsActive', NEW cur \in Slots,
         UNCHANGED <<parent, mainthread, pid>>,
         \A s \in Slots :
           \/ state'[s] = state[s]
           \/ state[s] \in Active /\ state'[s] \in {"RUNNABLE", "RUNNING"}
           \/ s = cur /\ state[s] = "RUNNING" /\ state'[s] = "SLEEPING",
         \A s \in Slots \ {cur} :
           /\ pc'[s] = pc[s] /\ np'[s] = np[s] /\ ptr'[s] = ptr[s]
           /\ chan'[s] = chan[s] /\ num'[s] = num[s],
         \/ /\ pc'[cur] = pc[cur] /\ np'[cur] = np[cur] /\ ptr'[cur] = ptr[cur]
            /\ state'[cur] # "SLEEPING"
         \/ pc'[cur] \in {"user", "getChannel", "sigOneChan"} /\ state'[cur] # "SLEEPING"
         \/ pc'[cur] = "sleepChan"
  PROVE  Waiters'
<1> USE DEF Waiters
<1>1. ParentsAreActive'
  BY DEF ParentsAreActive, Active
<1>2. NewHaveNoParent'
  BY DEF NewHaveNoParent, Active
<1>3. WaitPidHasChild'
  BY DEF WaitPidHasChild
<1>4. ThreadsAreNoMain'
  BY DEF ThreadsAreNoMain
<1>5. WaitersSleepOnThemselves'
  BY DEF WaitersSleepOnThemselves, Active
<1>6. NoMissedExit'
  BY DEF NoMissedExit, Active, WaitPidHasChild
<1> QED
  BY <1>1, <1>2, <1>3, <1>4, <1>5, <1>6

(* A zombie is reaped that is the caller's child or no main thread.        *)
LEMMA WaitersReap ==
  ASSUME Kernel, Waiters, InitIsActive', NEW c \in Cpus, cpu[c] # Nobody, NEW S,
         \A s \in S : /\ s \in Slots /\ state[s] = "ZOMBIE"
                      /\ parent[s] = cpu[c] \/ mainthread[s] # s,
         Clear(S), Return(c),
         \A s \in Slots \ S : mainthread'[s] = mainthread[s]
  PROVE  Waiters'
<1> USE DEF Waiters
<1>1. PICK cur \in Slots : cur = cpu[c] /\ state[cur] = "RUNNING"
  BY CurrentRuns
<1>2. \A s \in S : state[s] = "ZOMBIE" /\ state'[s] = "UNUSED" /\ parent'[s] = Nobody
  BY ClearIs
<1>3. \A s \in Slots \ S : /\ state'[s] = state[s] /\ parent'[s] = parent[s]
                           /\ pid'[s] = pid[s] /\ mainthread'[s] = mainthread[s]
  BY ClearIs
<1>4. /\ pc'[cur] = "user"
      /\ \A s \in Slots \ {cur} : /\ pc'[s] = pc[s] /\ np'[s] = np[s]
                                  /\ ptr'[s] = ptr[s] /\ chan'[s] = chan[s]
                                  /\ num'[s] = num[s]
  <2>1. \A s \in Slots \ {cur} : num'[s] = num[s]
    BY <1>1 DEF Return, Kernel, TypeOK
  <2> QED
    BY <1>1, <2>1, ReturnsTo
<1>5. \A p \in Slots \ {cur} : pc[p] = "waitpid" => ptr[p] \notin S
  BY <1>1 DEF WaitPidHasChild
<1>6. ParentsAreActive'
  BY <1>2, <1>3 DEF ParentsAreActive, Active
<1>7. NewHaveNoParent'
  BY <1>2, <1>3 DEF NewHaveNoParent
<1>8. WaitPidHasChild'
  BY <1>3, <1>4, <1>5 DEF WaitPidHasChild
<1>9. ThreadsAreNoMain'
  <2>1. \A s \in Slots : pc[s] = "thread_parent" => np[s] \in Slots \ S
    BY <1>2, ProcTableAssumption
       DEF Kernel, Creators, Creating, TypeOK, ProcTableAssumption
  <2> QED
    BY <1>3, <1>4, <2>1 DEF ThreadsAreNoMain
<1>10. WaitersSleepOnThemselves'
  BY <1>1, <1>2, <1>3, <1>4 DEF WaitersSleepOnThemselves
<1>11. NoMissedExit'
  BY <1>1, <1>2, <1>3, <1>4, <1>5 DEF NoMissedExit, WaitPidHasChild
<1> QED
  BY <1>6, <1>7, <1>8, <1>9, <1>10, <1>11

(* The caller goes to sleep in a waiting call, having found no zombie.     *)
LEMMA WaitersSleep ==
  ASSUME Kernel, Waiters, InitIsActive', NEW c \in Cpus, NEW cur \in Slots,
         cur = cpu[c], cpu[c] # Nobody,
         NEW where \in {"wait", "waitpid", "thread_join"},
         SleepOn(c, cur, where),
         UNCHANGED <<parent, mainthread, pid, np>>,
         \A s \in Slots \ {cur} : ptr'[s] = ptr[s] /\ num'[s] = num[s],
         where = "wait" =>
           \A s \in Slots : parent[s] = cur /\ mainthread[s] = s =>
                              state[s] # "ZOMBIE",
         where = "waitpid" =>
           /\ ptr'[cur] \in Slots /\ parent[ptr'[cur]] = cur
           /\ mainthread[ptr'[cur]] = ptr'[cur] /\ state[ptr'[cur]] # "ZOMBIE",
         where = "thread_join" =>
           \A s \in Slots \ {cur} : mainthread[s] = cur /\ pid[s] = num'[cur] =>
                                      state[s] # "ZOMBIE"
  PROVE  Waiters'
<1> USE DEF Waiters
<1>1. state[cur] = "RUNNING"
  BY CurrentRuns
<1>2. /\ pc'[cur] = where /\ state'[cur] = "SLEEPING" /\ chan'[cur] = cur
      /\ \A s \in Slots \ {cur} :
           pc'[s] = pc[s] /\ chan'[s] = chan[s] /\ state'[s] = state[s]
  <2>1. chan'[cur] = cur
    BY DEF SleepOn, Kernel, TypeOK
  <2> QED
    BY <2>1, SleepsOn
<1>3. ParentsAreActive'
  BY <1>1, <1>2 DEF ParentsAreActive, Active
<1>4. NewHaveNoParent'
  BY <1>1, <1>2 DEF NewHaveNoParent
<1>5. WaitPidHasChild'
  BY <1>2 DEF WaitPidHasChild
<1>6. ThreadsAreNoMain'
  BY <1>2 DEF ThreadsAreNoMain
<1>7. WaitersSleepOnThemselves'
  BY <1>2 DEF WaitersSleepOnThemselves
<1>8. NoMissedExit'
  BY <1>1, <1>2 DEF NoMissedExit, WaitPidHasChild
<1> QED
  BY <1>3, <1>4, <1>5, <1>6, <1>7, <1>8

LEMMA WaitersExit ==
  ASSUME Kernel, Waiters, InitIsActive', NEW c \in Cpus, Exit(c)
  PROVE  Waiters'
<1> USE DEF Waiters
<1>1. cpu[c] # Nobody /\ pc[cpu[c]] = "user"
  BY DEF Exit, At
<1>2. PICK cur \in Slots : cur = cpu[c] /\ state[cur] = "RUNNING" /\ pc[cur] = "user"
  BY <1>1, CurrentRuns
<1>3. PICK ch : ch = Waiter(cur)
  OBVIOUS
<1>4. PICK st \in [Slots -> States] : st = Woken(state, ch)
  BY WokenType DEF Kernel, TypeOK
<1>5. PICK others \in [Slots -> States] :
         /\ others = IF InitMustWake(cur) THEN Woken(st, InitProc) ELSE st
         /\ state' = [others EXCEPT ![cur] = "ZOMBIE"]
  <2>1. Woken(st, InitProc) \in [Slots -> States]
    BY WokenType
  <2> QED
    BY <1>2, <1>3, <1>4, <2>1 DEF Exit
<1>6. state'[cur] = "ZOMBIE" /\ cur # InitProc
  BY <1>2, <1>5 DEF Exit
<1>7. ASSUME NEW s \in Slots \ {cur}
      PROVE  /\ \/ state'[s] = state[s]
                \/ state[s] = "SLEEPING" /\ state'[s] = "RUNNABLE"
             /\ state'[s] = "SLEEPING" =>
                  /\ chan[s] # ch
                  /\ InitMustWake(cur) => chan[s] # InitProc
  <2>1. st[s] = IF state[s] = "SLEEPING" /\ chan[s] = ch
                THEN "RUNNABLE" ELSE state[s]
    BY <1>4, WokenIs DEF Kernel, TypeOK
  <2>2. others[s] = IF InitMustWake(cur) /\ st[s] = "SLEEPING" /\ chan[s] = InitProc
                    THEN "RUNNABLE" ELSE st[s]
    BY <1>5, WokenIs
  <2>3. state'[s] = others[s]
    BY <1>5
  <2> QED
    BY <2>1, <2>2, <2>3
<1>8. /\ UNCHANGED <<pid, mainthread, chan, np, ptr, num>>
      /\ pc'[cur] = "zombie"
      /\ \A s \in Slots \ {cur} : pc'[s] = pc[s]
  BY <1>2 DEF Exit, GoTo, locals, Kernel, TypeOK
<1>9. \A s \in Slots : parent'[s] = IF parent[s] = cur THEN InitProc ELSE parent[s]
  BY <1>2 DEF Exit, Reparented, Children, On, Kernel, TypeOK
<1>10. /\ InitProc \in Slots /\ Nobody \notin Slots
       /\ state[InitProc] \in Active /\ state'[InitProc] \in Active
  BY ProcTableAssumption DEF ProcTableAssumption, InitIsActive
<1>11. ParentsAreActive'
  <2> SUFFICES ASSUME NEW s \in Slots \ {InitProc},
                      state'[s] \notin {"UNUSED", "EMBRYO"}, mainthread[s] = s
               PROVE  /\ parent'[s] \in Slots /\ parent'[s] # s
                      /\ state'[parent'[s]] \in Active
    BY <1>8 DEF ParentsAreActive
  <2>1. /\ parent[s] \in Slots /\ parent[s] # s /\ state[parent[s]] \in Active
    <3>1. state[s] \notin {"UNUSED", "EMBRYO"}
      BY <1>2, <1>7
    <3> QED
      BY <3>1 DEF ParentsAreActive
  <2>2. CASE parent[s] = cur
    BY <1>9, <1>10, <2>2
  <2>3. CASE parent[s] # cur
    BY <1>7, <1>9, <2>1, <2>3 DEF Active
  <2> QED
    BY <2>2, <2>3
<1>12. NewHaveNoParent'
  BY <1>2, <1>6, <1>7, <1>9, <1>10 DEF NewHaveNoParent
<1>13. WaitPidHasChild'
  BY <1>2, <1>8, <1>9 DEF WaitPidHasChild
<1>14. ThreadsAreNoMain'
  BY <1>8 DEF ThreadsAreNoMain
<1>15. WaitersSleepOnThemselves'
  BY <1>6, <1>7, <1>8 DEF WaitersSleepOnThemselves
<1>16. ASSUME NEW p \in Slots, state'[p] = "SLEEPING"
       PROVE  /\ p # cur /\ state[p] = "SLEEPING" /\ pc'[p] = pc[p]
              /\ chan[p] # ch
              /\ InitMustWake(cur) => chan[p] # InitProc
  BY <1>6, <1>7, <1>8, <1>16
<1>17. ch = IF mainthread[cur] = cur THEN parent[cur] ELSE mainthread[cur]
  BY <1>3 DEF Waiter
<1>18. mainthread[cur] = cur => parent[cur] # cur
  BY <1>2, <1>6 DEF ParentsAreActive
<1>19. ASSUME NEW p \in Slots, state'[p] = "SLEEPING", pc'[p] = "wait",
              NEW s \in Slots, parent'[s] = p, mainthread[s] = s,
              state'[s] = "ZOMBIE"
       PROVE  FALSE
  <2>1. state[p] = "SLEEPING" /\ pc[p] = "wait" /\ p # cur
    BY <1>16, <1>19
  <2>2. chan[p] = p
    BY <2>1 DEF WaitersSleepOnThemselves
  <2>3. CASE s = cur
    <3>1. parent'[s] = parent[cur]
      BY <1>9, <1>18, <1>19, <2>3
    <3> QED
      BY <1>16, <1>17, <1>19, <2>2, <2>3, <3>1
  <2>4. CASE s # cur
    <3>1. state[s] = "ZOMBIE"
      BY <1>7, <1>19, <2>4
    <3>2. CASE parent[s] = cur
      <4>1. InitMustWake(cur) /\ p = InitProc
        BY <1>9, <1>19, <3>1, <3>2 DEF InitMustWake, Children
      <4> QED
        BY <1>16, <1>19, <2>2, <4>1
    <3>3. CASE parent[s] # cur
      BY <1>9, <1>19, <2>1, <3>1, <3>3 DEF NoMissedExit
    <3> QED
      BY <3>2, <3>3
  <2> QED
    BY <2>3, <2>4
<1>20. ASSUME NEW p \in Slots, state'[p] = "SLEEPING", pc'[p] = "waitpid"
       PROVE  state'[ptr[p]] # "ZOMBIE"
  <2>1. state[p] = "SLEEPING" /\ pc[p] = "waitpid" /\ p # cur
    BY <1>16, <1>20
  <2>2. chan[p] = p
    BY <2>1 DEF WaitersSleepOnThemselves
  <2>3. /\ ptr[p] \in Slots /\ parent[ptr[p]] = p
        /\ mainthread[ptr[p]] = ptr[p] /\ state[ptr[p]] # "ZOMBIE"
    BY <2>1 DEF WaitPidHasChild, NoMissedExit
  <2>4. ptr[p] # cur
    BY <1>16, <1>17, <1>20, <2>2, <2>3
  <2> QED
    BY <1>7, <2>3, <2>4
<1>21. ASSUME NEW p \in Slots, state'[p] = "SLEEPING", pc'[p] = "thread_join",
              NEW s \in Slots, mainthread[s] = p, pid[s] = num[p]
       PROVE  state'[s] # "ZOMBIE"
  <2>1. state[p] = "SLEEPING" /\ pc[p] = "thread_join" /\ p # cur
    BY <1>16, <1>21
  <2>2. chan[p] = p
    BY <2>1 DEF WaitersSleepOnThemselves
  <2>3. s # cur
    BY <1>16, <1>17, <1>21, <2>1, <2>2
  <2>4. state[s] # "ZOMBIE"
    BY <1>21, <2>1 DEF NoMissedExit
  <2> QED
    BY <1>7, <2>3, <2>4
<1>22. NoMissedExit'
  BY <1>8, <1>19, <1>20, <1>21 DEF NoMissedExit
<1> QED
  BY <1>11, <1>12, <1>13, <1>14, <1>15, <1>22

LEMMA WaitersAllocProc ==
  ASSUME Kernel, Waiters, InitIsActive', NEW c \in Cpus, AllocProc(c)
  PROVE  Waiters'
<1> USE DEF Waiters
<1>1. PICK cur \in Slots : cur = cpu[c] /\ state[cur] = "RUNNING"
  BY CurrentRuns DEF AllocProc, Call, At
<1>2. PICK new \in Slots : /\ state[new] = "UNUSED"
                           /\ state' = [state EXCEPT ![new] = "EMBRYO"]
                           /\ pid' = [pid EXCEPT ![new] = nextpid]
                           /\ mainthread' = [mainthread EXCEPT ![new] = new]
                           /\ np' = [np EXCEPT ![cur] = new]
  BY <1>1 DEF AllocProc
<1>3. PICK call \in {"fork", "thread_create"} : pc' = [pc EXCEPT ![cur] = call]
  BY <1>1 DEF AllocProc, GoTo
<1>4. UNCHANGED <<parent, chan, ptr, num>>
  BY DEF AllocProc
<1>5. /\ state'[new] = "EMBRYO" /\ mainthread'[new] = new
      /\ \A s \in Slots \ {new} : /\ state'[s] = state[s]
                                  /\ mainthread'[s] = mainthread[s]
                                  /\ pid'[s] = pid[s]
  BY <1>2 DEF Kernel, TypeOK
<1>6. /\ pc'[cur] = call
      /\ \A s \in Slots \ {cur} : pc'[s] = pc[s] /\ np'[s] = np[s]
  BY <1>2, <1>3 DEF Kernel, TypeOK
<1>7. parent[new] = Nobody /\ Nobody \notin Slots
  BY <1>2, ProcTableAssumption DEF NewHaveNoParent, ProcTableAssumption
<1>8. ParentsAreActive'
  BY <1>2, <1>4, <1>5 DEF ParentsAreActive, Active
<1>9. NewHaveNoParent'
  BY <1>4, <1>5, <1>7 DEF NewHaveNoParent
<1>10. WaitPidHasChild'
  BY <1>4, <1>5, <1>6, <1>7 DEF WaitPidHasChild
<1>11. ThreadsAreNoMain'
  <2>1. \A s \in Slots : pc[s] = "thread_parent" => np[s] \in Slots \ {new}
    BY <1>2, ProcTableAssumption
       DEF Kernel, Creators, Creating, TypeOK, ProcTableAssumption
  <2> QED
    BY <1>5, <1>6, <2>1 DEF ThreadsAreNoMain
<1>12. WaitersSleepOnThemselves'
  BY <1>1, <1>4, <1>5, <1>6 DEF WaitersSleepOnThemselves
<1>13. NoMissedExit'
  BY <1>1, <1>2, <1>4, <1>5, <1>6, <1>7 DEF NoMissedExit, WaitPidHasChild
<1> QED
  BY <1>8, <1>9, <1>10, <1>11, <1>12, <1>13

LEMMA WaitersAllocFailed ==
  ASSUME Kernel, Waiters, InitIsActive', NEW c \in Cpus, AllocFailed(c)
  PROVE  Waiters'
<1> USE DEF Waiters
<1>1. cpu[c] # Nobody /\ pc[cpu[c]] \in {"fork", "thread_create"} /\ Return(c)
  BY DEF AllocFailed, At
<1>2. PICK cur \in Slots : cur = cpu[c] /\ state[cur] = "RUNNING"
  BY <1>1, CurrentRuns
<1>3. PICK new \in Slots : new = np[cur] /\ state[new] = "EMBRYO"
  BY <1>1, <1>2, ProcTableAssumption
     DEF Kernel, TypeOK, Creators, Creating, ProcTableAssumption
<1>4. /\ state'[new] = "UNUSED"
      /\ \A s \in Slots \ {new} : state'[s] = state[s]
      /\ UNCHANGED <<mainthread, parent, pid>>
  BY <1>2, <1>3 DEF AllocFailed, Kernel, TypeOK
<1>5. /\ pc'[cur] = "user"
      /\ \A s \in Slots \ {cur} : /\ pc'[s] = pc[s] /\ np'[s] = np[s]
                                  /\ ptr'[s] = ptr[s] /\ chan'[s] = chan[s]
  BY <1>1, <1>2, ReturnsTo
<1>6. \A s \in Slots \ {cur} : num'[s] = num[s]
  BY <1>1, <1>2 DEF Return, Kernel, TypeOK
<1>7. ParentsAreActive'
  BY <1>3, <1>4 DEF ParentsAreActive, Active
<1>8. NewHaveNoParent'
  BY <1>3, <1>4 DEF NewHaveNoParent
<1>9. WaitPidHasChild'
  BY <1>4, <1>5 DEF WaitPidHasChild
<1>10. ThreadsAreNoMain'
  BY <1>4, <1>5 DEF ThreadsAreNoMain
<1>11. WaitersSleepOnThemselves'
  BY <1>2, <1>3, <1>4, <1>5 DEF WaitersSleepOnThemselves
<1>12. NoMissedExit'
  BY <1>2, <1>3, <1>4, <1>5, <1>6 DEF NoMissedExit, WaitPidHasChild
<1> QED
  BY <1>7, <1>8, <1>9, <1>10, <1>11, <1>12

LEMMA WaitersThreadCreate ==
  ASSUME Kernel, Waiters, InitIsActive', NEW c \in Cpus, ThreadCreate(c)
  PROVE  Waiters'
<1> USE DEF Waiters
<1>1. cpu[c] # Nobody /\ pc[cpu[c]] = "thread_create"
  BY DEF ThreadCreate, At
<1>2. PICK cur \in Slots : cur = cpu[c] /\ state[cur] = "RUNNING"
  BY <1>1, CurrentRuns
<1>3. PICK new \in Slots : new = np[cur] /\ state[new] = "EMBRYO"
  BY <1>1, <1>2, ProcTableAssumption
     DEF Kernel, TypeOK, Creators, Creating, ProcTableAssumption
<1>4. PICK m : m = mainthread[cur]
  OBVIOUS
<1>5. m # new
  BY <1>2, <1>3, <1>4 DEF Kernel, EmbryosAreAlone, Live
<1>6. /\ mainthread'[new] = m
      /\ \A s \in Slots \ {new} : mainthread'[s] = mainthread[s]
      /\ UNCHANGED <<state, parent, pid, chan, np, num>>
  BY <1>2, <1>3, <1>4 DEF ThreadCreate, Group, Kernel, TypeOK
<1>7. /\ pc'[cur] = "thread_parent"
      /\ \A s \in Slots \ {cur} : pc'[s] = pc[s] /\ ptr'[s] = ptr[s]
  BY <1>2 DEF ThreadCreate, GoTo, Kernel, TypeOK
<1>8. parent[new] = Nobody /\ Nobody \notin Slots
  BY <1>3, ProcTableAssumption DEF NewHaveNoParent, ProcTableAssumption
<1>9. ParentsAreActive'
  BY <1>3, <1>6 DEF ParentsAreActive
<1>10. NewHaveNoParent'
  BY <1>6 DEF NewHaveNoParent
<1>11. WaitPidHasChild'
  BY <1>6, <1>7, <1>8 DEF WaitPidHasChild
<1>12. ThreadsAreNoMain'
  <2>1. \A s \in Slots \ {cur} : pc[s] = "thread_parent" => np[s] \in Slots \ {new}
    BY <1>1, <1>2, <1>3, ProcTableAssumption
       DEF Kernel, Creators, Creating, TypeOK, ProcTableAssumption
  <2> QED
    BY <1>3, <1>5, <1>6, <1>7, <2>1 DEF ThreadsAreNoMain
<1>13. WaitersSleepOnThemselves'
  BY <1>2, <1>6, <1>7 DEF WaitersSleepOnThemselves
<1>14. NoMissedExit'
  BY <1>2, <1>3, <1>6, <1>7 DEF NoMissedExit, WaitPidHasChild
<1> QED
  BY <1>9, <1>10, <1>11, <1>12, <1>13, <1>14

LEMMA WaitersPublish ==
  ASSUME Kernel, Waiters, InitIsActive', NEW c \in Cpus, NEW mother,
         cpu[c] # Nobody, pc[cpu[c]] \in Creating,
         \/ mother = cpu[c]
         \/ pc[cpu[c]] = "thread_parent",
         Publish(c, mother), UNCHANGED mainthread
  PROVE  Waiters'
<1> USE DEF Waiters
<1>1. PICK cur \in Slots : cur = cpu[c] /\ state[cur] = "RUNNING"
  BY CurrentRuns
<1>2. PICK new \in Slots : new = np[cur] /\ state[new] = "EMBRYO"
  BY <1>1, ProcTableAssumption
     DEF Kernel, TypeOK, Creators, Creating, ProcTableAssumption
<1>3. /\ state'[new] = "RUNNABLE" /\ parent'[new] = mother
      /\ \A s \in Slots \ {new} : state'[s] = state[s] /\ parent'[s] = parent[s]
      /\ UNCHANGED <<pid, chan, num>>
  BY <1>1, <1>2 DEF Publish, Kernel, TypeOK
<1>4. /\ pc'[cur] = "user" /\ pc'[new] = "user"
      /\ \A s \in Slots \ {cur, new} : pc'[s] = pc[s]
      /\ \A s \in Slots \ {cur} : np'[s] = np[s] /\ ptr'[s] = ptr[s]
  BY <1>1, <1>2 DEF Publish, Kernel, TypeOK
<1>5. parent[new] = Nobody /\ Nobody \notin Slots
  BY <1>2, ProcTableAssumption DEF NewHaveNoParent, ProcTableAssumption
<1>6. mother = cur \/ mainthread[new] # new
  BY <1>1, <1>2 DEF ThreadsAreNoMain
<1>7. ParentsAreActive'
  BY <1>1, <1>2, <1>3, <1>6 DEF ParentsAreActive, Active
<1>8. NewHaveNoParent'
  BY <1>3 DEF NewHaveNoParent
<1>9. WaitPidHasChild'
  BY <1>3, <1>4, <1>5 DEF WaitPidHasChild
<1>10. ThreadsAreNoMain'
  BY <1>4 DEF ThreadsAreNoMain
<1>11. WaitersSleepOnThemselves'
  BY <1>1, <1>3, <1>4 DEF WaitersSleepOnThemselves
<1>12. NoMissedExit'
  BY <1>1, <1>2, <1>3, <1>4 DEF NoMissedExit, WaitPidHasChild
<1> QED
  BY <1>7, <1>8, <1>9, <1>10, <1>11, <1>12

(* A waiting call that gives up, or one that has what it came for.         *)
LEMMA WaitersReturn ==
  ASSUME Kernel, Waiters, InitIsActive', NEW c \in Cpus, cpu[c] # Nobody,
         Return(c), UNCHANGED <<state, parent, mainthread, pid>>
  PROVE  Waiters'
<1>1. PICK cur \in Slots : cur = cpu[c] /\ state[cur] = "RUNNING"
  BY CurrentRuns
<1>2. \A s \in Slots \ {cur} : num'[s] = num[s]
  BY <1>1 DEF Return, Kernel, TypeOK
<1>3. /\ pc'[cur] = "user"
      /\ \A s \in Slots \ {cur} : /\ pc'[s] = pc[s] /\ np'[s] = np[s]
                                  /\ ptr'[s] = ptr[s] /\ chan'[s] = chan[s]
  BY <1>1, ReturnsTo
<1> QED
  BY <1>1, <1>2, <1>3, WaitersStay

LEMMA WaitersFailOrSleep ==
  ASSUME Kernel, Waiters, InitIsActive', NEW c \in Cpus, cpu[c] # Nobody, NEW S,
         NEW where \in {"wait", "thread_join"}, NEW n \in Nat,
         FailOrSleep(c, S, where, n),
         where = "wait" => S = {s \in Slots : parent[s] = cpu[c] /\ mainthread[s] = s},
         where = "thread_join" =>
           S = {s \in Slots : s # cpu[c] /\ mainthread[s] = cpu[c] /\ pid[s] = n}
  PROVE  Waiters'
<1>1. PICK cur \in Slots : cur = cpu[c] /\ state[cur] = "RUNNING"
  BY CurrentRuns
<1>2. UNCHANGED <<parent, mainthread, pid>> /\ \A s \in S \cap Slots : state[s] # "ZOMBIE"
  BY DEF FailOrSleep, Zombies
<1>3. CASE S = {} \/ killed[cpu[c]]
  BY <1>2, <1>3, WaitersReturn DEF FailOrSleep
<1>4. CASE ~(S = {} \/ killed[cpu[c]])
  <2>1. /\ SleepOn(c, cur, where) /\ UNCHANGED <<np, ptr>>
        /\ num' = [num EXCEPT ![cur] = n]
    BY <1>1, <1>4 DEF FailOrSleep
  <2>2. num'[cur] = n /\ \A s \in Slots \ {cur} : num'[s] = num[s]
    BY <2>1 DEF Kernel, TypeOK
  <2>3. where = "wait" => \A s \in Slots : parent[s] = cur /\ mainthread[s] = s =>
                                            state[s] # "ZOMBIE"
    BY <1>1, <1>2
  <2>4. where = "thread_join" =>
          \A s \in Slots \ {cur} : mainthread[s] = cur /\ pid[s] = num'[cur] =>
                                     state[s] # "ZOMBIE"
    BY <1>1, <1>2, <2>2
  <2> QED
    BY <1>1, <1>2, <2>1, <2>2, <2>3, <2>4, WaitersSleep
<1> QED
  BY <1>3, <1>4

LEMMA WaitersWait ==
  ASSUME Kernel, Waiters, InitIsActive', NEW c \in Cpus, Wait(c) PROVE Waiters'
<1>1. cpu[c] # Nobody
  BY DEF Wait, Call, At
<1>2. CASE FailOrSleep(c, {s \in Slots : parent[s] = cpu[c] /\ mainthread[s] = s},
                       "wait", 0)
  BY <1>1, <1>2, WaitersFailOrSleep
<1>3. ASSUME NEW z \in Slots, state[z] = "ZOMBIE", parent[z] = cpu[c], NEW S,
             S = {z} \cup {s \in Slots : mainthread[s] = z /\ Live(s)},
             Clear(S), mainthread' = On(mainthread, S, Nobody), Return(c)
      PROVE  Waiters'
  <2>1. \A s \in S : /\ s \in Slots /\ state[s] = "ZOMBIE"
                     /\ parent[s] = cpu[c] \/ mainthread[s] # s
    BY <1>3, ZombiesAreAlone
  <2>2. \A s \in Slots \ S : mainthread'[s] = mainthread[s]
    BY <1>3 DEF On, Kernel, TypeOK
  <2> QED
    BY <1>1, <1>3, <2>1, <2>2, WaitersReap
<1> QED
  BY <1>2, <1>3 DEF Wait, Zombies

LEMMA WaitersThreadJoin ==
  ASSUME Kernel, Waiters, InitIsActive', NEW c \in Cpus, NEW n \in Nat,
         ThreadJoin(c, n)
  PROVE  Waiters'
<1>1. cpu[c] # Nobody
  BY DEF ThreadJoin, Call, At
<1>2. PICK S : S = {s \in Slots : s # cpu[c] /\ mainthread[s] = cpu[c] /\ pid[s] = n}
  OBVIOUS
<1>3. CASE FailOrSleep(c, S, "thread_join", n)
  BY <1>1, <1>2, <1>3, WaitersFailOrSleep
<1>4. ASSUME NEW z \in S, state[z] = "ZOMBIE", Clear({z}),
             mainthread' = [mainthread EXCEPT ![z] = Nobody], Return(c)
      PROVE  Waiters'
  <2>1. z \in Slots /\ mainthread[z] # z
    BY <1>2
  <2>2. \A s \in Slots \ {z} : mainthread'[s] = mainthread[s]
    BY <1>4 DEF Kernel, TypeOK
  <2> QED
    BY <1>1, <1>4, <2>1, <2>2, WaitersReap
<1> QED
  BY <1>2, <1>3, <1>4 DEF ThreadJoin, Zombies

LEMMA WaitersWaitPid ==
  ASSUME "pids" \in Rules,
         Kernel, Waiters, InitIsActive', NEW c \in Cpus, NEW s \in Slots,
         WaitPid(c, s)
  PROVE  Waiters'
<1>1. cpu[c] # Nobody
  BY DEF WaitPid, Call, At
<1>2. PICK cur \in Slots : cur = cpu[c] /\ state[cur] = "RUNNING"
  BY <1>1, CurrentRuns
<1>3. parent[s] = cur /\ mainthread[s] = s
  BY <1>2 DEF WaitPid, At, Waiters, WaitPidHasChild
<1>4. CASE Zombies({s}) # {}
  <2>1. state[s] = "ZOMBIE" /\ Clear({s}) /\ Return(c) /\ UNCHANGED mainthread
    BY <1>4 DEF WaitPid, Zombies
  <2> QED
    BY <1>1, <1>2, <1>3, <2>1, WaitersReap
<1>5. CASE Zombies({s}) = {}
  <2>1. /\ SleepOn(c, cur, "waitpid") /\ ptr' = [ptr EXCEPT ![cur] = s]
        /\ UNCHANGED <<parent, mainthread, pid, np, num>>
    BY <1>2, <1>5 DEF WaitPid
  <2>2. ptr'[cur] = s /\ \A t \in Slots \ {cur} : ptr'[t] = ptr[t]
    BY <2>1 DEF Kernel, TypeOK
  <2>3. state[s] # "ZOMBIE"
    BY <1>5 DEF Zombies
  <2> QED
    BY <1>1, <1>2, <1>3, <2>1, <2>2, <2>3, WaitersSleep
<1> QED
  BY <1>4, <1>5

LEMMA WaitersScheduling ==
  ASSUME Kernel, Waiters, InitIsActive', NEW c \in Cpus, Scheduler(c) \/ Yield(c)
  PROVE  Waiters'
<1>1. PICK s \in Slots :
        /\ state[s] \in {"RUNNABLE", "RUNNING"}
        /\ \/ state' = [state EXCEPT ![s] = "RUNNING"]
           \/ state' = [state EXCEPT ![s] = "RUNNABLE"]
  BY CurrentRuns DEF Scheduler, Yield
<1>2. UNCHANGED <<pid, parent, mainthread, chan, pc, np, ptr, num>>
  BY DEF Scheduler, Yield, locals
<1>3. /\ state'[s] \in {"RUNNABLE", "RUNNING"}
      /\ \A t \in Slots \ {s} : state'[t] = state[t]
  BY <1>1 DEF Kernel, TypeOK
<1> QED
  BY <1>1, <1>2, <1>3, WaitersStay DEF Active

LEMMA WaitersWake ==
  ASSUME Kernel, Waiters, InitIsActive', NEW c \in Cpus, cpu[c] # Nobody,
         \A s \in Slots : \/ state'[s] = state[s]
                          \/ state[s] = "SLEEPING" /\ state'[s] = "RUNNABLE",
         UNCHANGED <<pid, parent, mainthread, chan, pc, np, ptr, num>>
  PROVE  Waiters'
<1>1. PICK cur \in Slots : cur = cpu[c] /\ state[cur] = "RUNNING"
  BY CurrentRuns
<1> QED
  BY <1>1, WaitersStay DEF Active

LEMMA WaitersSignalling ==
  ASSUME Kernel, Waiters, InitIsActive', NEW c \in Cpus, Signalling(c)
  PROVE  Waiters'
<1>1. PICK cur \in Slots : cur = cpu[c] /\ cpu[c] # Nobody /\ state[cur] = "RUNNING"
  BY CurrentRuns DEF Signalling, Kill, GetChannel, GotChannel, SleepChan,
     SleepChanReturns, SigChan, SigOneChan, SigOneChanStores, Call, At
<1>2. ASSUME NEW n, Kill(c, n) PROVE Waiters'
  <2>1. \A t \in Slots : \/ state'[t] = state[t]
                         \/ state[t] = "SLEEPING" /\ state'[t] = "RUNNABLE"
    BY <1>2 DEF Kill, AfterKill, Kernel, TypeOK
  <2> QED
    BY <1>1, <1>2, <2>1, WaitersWake DEF Kill, locals
<1>3. CASE SigChan(c)
  <2>1. PICK ch : state' = Woken(state, ch)
    BY <1>3 DEF SigChan
  <2>2. \A t \in Slots : \/ state'[t] = state[t]
                         \/ state[t] = "SLEEPING" /\ state'[t] = "RUNNABLE"
    BY <2>1, WokenIs DEF Kernel, TypeOK
  <2> QED
    BY <1>1, <1>3, <2>2, WaitersWake DEF SigChan, locals
<1>4. CASE GotChannel(c) \/ SleepChanReturns(c)
  BY <1>1, <1>4, WaitersReturn DEF GotChannel, SleepChanReturns
<1>5. CASE GetChannel(c) \/ SigOneChan(c)
  <2>1. UNCHANGED <<state, parent, mainthread, pid, chan, np>>
    BY <1>5 DEF GetChannel, SigOneChan, table
  <2>2. /\ pc'[cur] \in {"getChannel", "sigOneChan"}
        /\ \A s \in Slots \ {cur} : /\ pc'[s] = pc[s] /\ ptr'[s] = ptr[s]
                                    /\ num'[s] = num[s]
    <3>1. /\ \/ GoTo(c, "getChannel") /\ UNCHANGED ptr /\ \E n : num' = [num EXCEPT ![cpu[c]] = n]
             \/ GoTo(c, "sigOneChan") /\ UNCHANGED num /\ \E s : ptr' = [ptr EXCEPT ![cpu[c]] = s]
      BY <1>5 DEF GetChannel, SigOneChan
    <3>2. DOMAIN pc = Slots /\ DOMAIN ptr = Slots /\ DOMAIN num = Slots
      BY DEF Kernel, TypeOK
    <3>3. pc'[cur] \in {"getChannel", "sigOneChan"}
      BY <1>1, <3>1, <3>2 DEF GoTo
    <3> QED
      BY <1>1, <3>1, <3>2, <3>3 DEF GoTo
  <2>3. \A s \in Slots \ {cur} : np'[s] = np[s] /\ chan'[s] = chan[s]
    BY <2>1
  <2>4. state'[cur] # "SLEEPING"
    BY <1>1, <2>1
  <2> QED
    BY <1>1, <2>1, <2>2, <2>3, <2>4, WaitersStay
<1>6. CASE SleepChan(c)
  <2>1. PICK ch : SleepOn(c, ch, "sleepChan")
    BY <1>6 DEF SleepChan
  <2>2. UNCHANGED <<parent, mainthread, pid, np, ptr, num>>
    BY <1>6 DEF SleepChan, locals
  <2>3. /\ pc'[cur] = "sleepChan" /\ state'[cur] = "SLEEPING"
        /\ \A s \in Slots \ {cur} :
             pc'[s] = pc[s] /\ chan'[s] = chan[s] /\ state'[s] = state[s]
    BY <1>1, <2>1, SleepsOn
  <2> QED
    BY <1>1, <2>2, <2>3, WaitersStay
<1>7. CASE SigOneChanStores(c)
  <2>1. Return(c) /\ UNCHANGED <<parent, mainthread, pid>> /\ pc[cur] = "sigOneChan"
    BY <1>1, <1>7 DEF SigOneChanStores, At
  <2>2. PICK s \in Slots : s = ptr[cur] /\ state[s] = "SLEEPING"
    BY <1>1, <2>1, ProcTableAssumption
       DEF Kernel, TypeOK, Signallers, ProcTableAssumption
  <2>3. /\ state'[s] = "RUNNABLE"
        /\ \A t \in Slots \ {s} : state'[t] = state[t]
    BY <1>1, <1>7, <2>2 DEF SigOneChanStores, Kernel, TypeOK
  <2>4. \A t \in Slots \ {cur} : num'[t] = num[t]
    BY <1>1, <2>1 DEF Return, Kernel, TypeOK
  <2>5. /\ pc'[cur] = "user"
        /\ \A t \in Slots \ {cur} : /\ pc'[t] = pc[t] /\ np'[t] = np[t]
                                    /\ ptr'[t] = ptr[t] /\ chan'[t] = chan[t]
    BY <1>1, <2>1, ReturnsTo
  <2> QED
    BY <1>1, <2>1, <2>2, <2>3, <2>4, <2>5, WaitersStay DEF Active
<1> QED
  BY <1>2, <1>3, <1>4, <1>5, <1>6, <1>7 DEF Signalling

LEMMA WaitersStep ==
  ASSUME "pids" \in Rules, Kernel, Waiters, [Next]_vars PROVE Waiters'
<1>1. InitIsActive'
  BY InitIsActiveStep DEF Waiters
<1>2. ASSUME NEW c \in Cpus, Lifecycle(c) PROVE Waiters'
  <2>1. CASE Fork(c)
    BY <1>1, <2>1, WaitersPublish DEF Fork, At, Creating
  <2>2. CASE ThreadStart(c)
    BY <1>1, <2>2, WaitersPublish DEF ThreadStart, At, Creating
  <2> QED
    BY <1>1, <1>2, <2>1, <2>2, WaitersAllocProc, WaitersAllocFailed,
       WaitersThreadCreate, WaitersExit DEF Lifecycle
<1>3. ASSUME NEW c \in Cpus, Waiting(c) PROVE Waiters'
  <2>1. 0..MaxPid \subseteq Nat
    BY ProcTableAssumption DEF ProcTableAssumption
  <2> QED
    BY <1>1, <1>3, <2>1, WaitersWait, WaitersThreadJoin, WaitersWaitPid DEF Waiting
<1>4. CASE UNCHANGED vars
  BY <1>4 DEF vars, table, locals, Waiters, InitIsActive, ParentsAreActive,
     NewHaveNoParent, WaitPidHasChild, ThreadsAreNoMain,
     WaitersSleepOnThemselves, NoMissedExit
<1> QED
  BY <1>1, <1>2, <1>3, <1>4, WaitersScheduling, WaitersSignalling DEF Next

(* The exit of a process reaches the one that is to collect it: nobody     *)
(* sleeps in wait, waitpid or thread_join next to a zombie it waits for,   *)
(* and every main thread but init has a parent that has not exited, under  *)
(* the rules "join", "signal" and "pids".                                  *)
THEOREM ExitsReach ==
  ASSUME "join" \in Rules, "signal" \in Rules, "pids" \in Rules
  PROVE  Spec => []ExitsReachParents
<1>1. Kernel /\ Waiters /\ [Next]_vars => Waiters'
  BY WaitersStep
<1>2. Waiters => ParentCanCollect
  BY ProcTableAssumption
     DEF Waiters, ParentsAreActive, ParentCanCollect, Active, ProcTableAssumption
<1>3. Waiters => ExitsReachParents
  BY <1>2 DEF ExitsReachParents, Waiters
<1> QED
  BY <1>1, <1>3, WaitersInit, KernelAlways, PTL DEF Spec

-----------------------------------------------------------------------------
(* Addresses and pages                                                     *)

LEMMA Products ==
  ASSUME NEW a \in Int, NEW b \in Int, NEW d \in Nat
  PROVE  /\ a * d \in Int
         /\ (a + 1) * d = a * d + d
         /\ a <= b => a * d <= b * d
         /\ a < b => a * d + d <= b * d
<1>1. a * d \in Int /\ (a + 1) * d = a * d + d
  BY SMT
<1>2. \A c \in Int : c <= b => c * d <= b * d
  BY SMT
<1> QED BY <1>1, <1>2

LEMMA Quotients ==
  ASSUME NEW a \in Int, NEW d \in Nat \ {0}
  PROVE  /\ a \div d \in Int
         /\ a % d \in 0..(d - 1)
         /\ a = (a \div d) * d + (a % d)
BY SMT

(* NextPage(x) is the number of pages that x units need.                   *)
LEMMA NextPageIs ==
  ASSUME NEW x \in Nat
  PROVE  /\ NextPage(x) \in Nat
         /\ x <= NextPage(x) * PageSize
         /\ NextPage(x) * PageSize < x + PageSize
         /\ PagesBelow(x) = 0..(NextPage(x) - 1)
<1>0. PageSize \in Nat \ {0}
  BY AddressSpaceAssumption
<1>1. PICK n, r : n = (x + PageSize - 1) \div PageSize /\ r = (x + PageSize - 1) % PageSize
  OBVIOUS
<1>2. n \in Int /\ r \in 0..(PageSize - 1) /\ x + PageSize - 1 = n * PageSize + r
  BY <1>0, <1>1, Quotients
<1>3. n >= 0
  <2> SUFFICES ASSUME n <= -1 PROVE FALSE
    BY <1>2
  <2>1. n * PageSize <= (-1) * PageSize /\ n * PageSize \in Int
    BY <1>0, <1>2, Products
  <2>2. (-1) * PageSize = -PageSize
    BY <1>0
  <2> QED BY <1>0, <1>2, <2>1, <2>2
<1>4. n * PageSize \in Int
  BY <1>0, <1>2, Products
<1>5. x <= n * PageSize /\ n * PageSize < x + PageSize
  BY <1>0, <1>2, <1>4
<1> QED BY <1>1, <1>2, <1>3, <1>5 DEF NextPage, PagesBelow

LEMMA NextPageOnly ==
  ASSUME NEW x \in Nat, NEW n \in Nat,
         x <= n * PageSize, n * PageSize < x + PageSize
  PROVE  n = NextPage(x)
<1>0. PageSize \in Nat
  BY AddressSpaceAssumption
<1>1. PICK m \in Nat : /\ m = NextPage(x) /\ x <= m * PageSize
                       /\ m * PageSize < x + PageSize
  BY NextPageIs
<1>2. n * PageSize \in Int /\ m * PageSize \in Int
  BY <1>0, Products
<1>3. n < m => n * PageSize + PageSize <= m * PageSize
  BY <1>0, Products
<1>4. m < n => m * PageSize + PageSize <= n * PageSize
  BY <1>0, Products
<1> QED BY <1>0, <1>1, <1>2, <1>3, <1>4

(* More units need more pages; one page more, one page more.               *)
LEMMA PagesGrow ==
  ASSUME NEW x \in Nat, NEW y \in Nat, x <= y
  PROVE  NextPage(x) <= NextPage(y) /\ PagesBelow(x) \subseteq PagesBelow(y)
<1>0. PageSize \in Nat
  BY AddressSpaceAssumption
<1>1. PICK n \in Nat : /\ n = NextPage(x) /\ n * PageSize < x + PageSize
                       /\ PagesBelow(x) = 0..(n - 1)
  BY NextPageIs
<1>2. PICK m \in Nat : /\ m = NextPage(y) /\ y <= m * PageSize
                       /\ PagesBelow(y) = 0..(m - 1)
  BY NextPageIs
<1>3. m < n => m * PageSize + PageSize <= n * PageSize
  BY <1>0, Products
<1>4. PICK a \in Int, b \in Int : a = n * PageSize /\ b = m * PageSize
  BY <1>0, Products
<1>5. n <= m
  <2>1. a < x + PageSize /\ y <= b /\ (m < n => b + PageSize <= a)
    BY <1>1, <1>2, <1>3, <1>4
  <2> QED BY <1>0, <2>1
<1>6. 0..(n - 1) \subseteq 0..(m - 1)
  BY <1>5
<1> QED BY <1>1, <1>2, <1>5, <1>6

LEMMA OnePageMore ==
  ASSUME NEW x \in Nat
  PROVE  /\ x + PageSize \in Nat
         /\ NextPage(x + PageSize) = NextPage(x) + 1
         /\ PagesBelow(x + PageSize) = PagesBelow(x) \cup {NextPage(x)}
<1>0. PageSize \in Nat /\ x + PageSize \in Nat
  BY AddressSpaceAssumption
<1>1. PICK n \in Nat : /\ n = NextPage(x) /\ x <= n * PageSize
                       /\ n * PageSize < x + PageSize
                       /\ PagesBelow(x) = 0..(n - 1)
  BY NextPageIs
<1>2. (n + 1) * PageSize = n * PageSize + PageSize /\ n * PageSize \in Int
  BY <1>0, Products
<1>3. n + 1 = NextPage(x + PageSize)
  <2>1. /\ x + PageSize <= (n + 1) * PageSize
        /\ (n + 1) * PageSize < (x + PageSize) + PageSize
    BY <1>0, <1>1, <1>2
  <2> QED BY <1>0, <2>1, NextPageOnly
<1>4. PagesBelow(x + PageSize) = 0..n
  BY <1>0, <1>3, NextPageIs
<1> QED BY <1>0, <1>1, <1>3, <1>4

LEMMA Aligned ==
  ASSUME NEW x \in Nat, x % PageSize = 0
  PROVE  NextPage(x) * PageSize = x
<1>0. PageSize \in Nat \ {0}
  BY AddressSpaceAssumption
<1>1. PICK n : n = x \div PageSize
  OBVIOUS
<1>2. n \in Int /\ x = n * PageSize
  <2>1. n \in Int /\ x = n * PageSize + (x % PageSize)
    BY <1>0, <1>1, Quotients
  <2>2. n * PageSize \in Int
    BY <1>0, <2>1, Products
  <2> QED BY <2>1, <2>2
<1>3. n \in Nat
  <2>1. n < 0 => n * PageSize + PageSize <= 0 * PageSize
    BY <1>0, <1>2, Products
  <2>2. 0 * PageSize = 0
    BY <1>0
  <2> QED BY <1>0, <1>2, <2>1, <2>2
<1>4. n = NextPage(x)
  BY <1>0, <1>2, <1>3, NextPageOnly
<1> QED BY <1>2, <1>4

(* The units of a page, and those below an address.                        *)
Top(p) == (p + 1) * PageSize

LEMMA Units ==
  ASSUME NEW p \in Nat
  PROVE  /\ Top(p) \in Nat /\ p * PageSize \in Nat /\ Top(p) = p * PageSize + PageSize
         /\ UnitsOf(p) = p * PageSize .. (Top(p) - 1)
         /\ Top(p) - 1 \in UnitsOf(p) /\ PageSize <= Top(p)
<1>0. PageSize \in Nat \ {0}
  BY AddressSpaceAssumption
<1>1. Top(p) = p * PageSize + PageSize /\ p * PageSize \in Int
  BY <1>0, Products DEF Top
<1>2. 0 * PageSize <= p * PageSize /\ 0 * PageSize = 0
  BY <1>0, Products
<1> QED BY <1>0, <1>1, <1>2 DEF UnitsOf, Top

LEMMA TopIs ==
  ASSUME NEW p \in Nat
  PROVE  Top(p) \in Nat /\ PageSize <= Top(p) /\ Top(p) - 1 \in UnitsOf(p)
BY Units

LEMMA UnitsBelow ==
  ASSUME NEW p \in Nat, NEW u \in UnitsOf(p)
  PROVE  u \in Nat /\ u < Top(p)
<1>1. /\ Top(p) \in Nat /\ p * PageSize \in Nat
      /\ UnitsOf(p) = p * PageSize .. (Top(p) - 1)
  BY Units
<1> QED BY <1>1

-----------------------------------------------------------------------------
(* The memory of the processes and threads.  A thread has its place in the *)
(* address space from the first half of thread_create on, before it is in  *)
(* the table as runnable.                                                  *)
HasMemory(s) == s \in Started \/ \E t \in Slots : pc[t] = "thread_parent" /\ np[t] = s

(* The page table is the main thread's, whose size is where it ends.  The  *)
(* size of another thread is the top of its stack, so that nothing the main*)
(* thread gives back to sbrk lies below it.                                *)
Laid(s) ==
  LET m == mainthread[s] IN
  /\ m \in Slots /\ pgdir[s] = m
  /\ Top(stack[s]) <= sz[s] /\ sz[s] <= sz[m]
  /\ m # s => sz[s] = Top(stack[s])
  /\ UnitsOf(stack[s]) \cap heap[m] = {}
  /\ m = s => pages[s] = PagesBelow(sz[s]) /\ \A u \in heap[s] : u < sz[s]

Layout ==
  /\ \A s \in Slots : HasMemory(s) => Laid(s)
  /\ \A s, t \in Slots :
       HasMemory(s) /\ HasMemory(t) /\ s # t /\ mainthread[s] = mainthread[t]
         => stack[s] # stack[t]

(* What is true of a process that is creating another: the new slot is on  *)
(* its own until thread_create puts it into the group of its caller, which *)
(* is a main thread and has not called sbrk since it entered the kernel.   *)
Creation ==
  \A s \in Slots :
    /\ pc[s] \in {"fork", "thread_create"} => mainthread[np[s]] = np[s]
    /\ pc[s] = "thread_create" => MayCreate(s)
    /\ pc[s] = "thread_parent" => mainthread[s] = s /\ mainthread[np[s]] = s

Memory == Kernel /\ MemoryTypeOK /\ Creation /\ Layout

(* Who has memory has it in the address space of a main thread that has.   *)
HaveMains ==
  \A s \in Slots : HasMemory(s) =>
    LET m == mainthread[s] IN
    m \in Slots /\ mainthread[m] = m /\ m \in Started /\ HasMemory(m)

LEMMA MainsHave == Kernel /\ Creation => HaveMains
<1> SUFFICES ASSUME Kernel, Creation, NEW s \in Slots, HasMemory(s)
             PROVE  LET m == mainthread[s] IN
                    m \in Slots /\ mainthread[m] = m /\ m \in Started /\ HasMemory(m)
  BY DEF HaveMains
<1>1. CASE s \in Started
  <2>1. state[s] \notin {"UNUSED", "EMBRYO"}
    BY <1>1 DEF Started
  <2>2. PICK m \in Slots : m = mainthread[s] /\ mainthread[m] = m /\ state[m] # "UNUSED"
    BY <2>1, ProcTableAssumption
       DEF Kernel, TypeOK, ThreadsHaveMain, Live, ProcTableAssumption
  <2>3. state[m] # "EMBRYO"
    BY <2>1, <2>2 DEF Kernel, EmbryosAreAlone, Live
  <2> QED BY <2>2, <2>3 DEF Started, HasMemory
<1>2. ASSUME NEW t \in Slots, pc[t] = "thread_parent", np[t] = s
      PROVE  mainthread[s] = t /\ mainthread[t] = t /\ t \in Started
  BY <1>2 DEF Creation, Kernel, Places, Started
<1> QED BY <1>1, <1>2 DEF HasMemory

(* Who is creating is in the table, what it creates is an embryo.          *)
LEMMA CreatorIs ==
  ASSUME Kernel, NEW s \in Slots, pc[s] \in Creating
  PROVE  /\ s \in Started /\ np[s] \in Slots /\ state[np[s]] = "EMBRYO"
         /\ np[s] \notin Started /\ np[s] # s
         /\ \A t \in Slots : pc[t] \in Creating /\ np[t] = np[s] => t = s
<1>1. np[s] \in Slots
  BY DEF Kernel, TypeOK, Creating
<1>2. state[np[s]] = "EMBRYO" /\ \A t \in Slots : pc[t] \in Creating /\ np[t] = np[s] => t = s
  BY DEF Kernel, Creators
<1>3. s \in Started
  BY DEF Kernel, Places, Creating, Started
<1> QED BY <1>1, <1>2, <1>3 DEF Started

-----------------------------------------------------------------------------
(* Steps that leave the memory, and who has which, alone.                  *)
Calm ==
  \A s \in Slots :
    /\ \/ state'[s] = state[s] /\ mainthread'[s] = mainthread[s]
       \/ HasMemory(s) /\ state'[s] # "EMBRYO" /\ mainthread'[s] = mainthread[s]
       \/ state'[s] = "UNUSED"
    /\ pc'[s] \in Creating => pc'[s] = pc[s] /\ np'[s] = np[s]

LEMMA CreationStays ==
  ASSUME Memory, Kernel', Calm, UNCHANGED sz
  PROVE  Creation'
<1> SUFFICES ASSUME NEW s \in Slots, pc'[s] \in Creating
             PROVE  /\ pc'[s] \in {"fork", "thread_create"} => mainthread'[np'[s]] = np'[s]
                    /\ pc'[s] = "thread_create" => MayCreate(s)'
                    /\ pc'[s] = "thread_parent" => mainthread'[s] = s /\ mainthread'[np'[s]] = s
  BY DEF Creation, Creating
<1>1. pc'[s] = pc[s] /\ np'[s] = np[s]
  BY DEF Calm
<1>2. np[s] \in Slots /\ state'[np[s]] = "EMBRYO" /\ state'[s] # "UNUSED"
  <2>1. np[s] \in Slots
    BY <1>1, CreatorIs DEF Memory
  <2>2. state'[np'[s]] = "EMBRYO"
    BY DEF Kernel, Creators
  <2>3. state'[s] # "UNUSED"
    BY DEF Kernel, Places, Creating
  <2> QED BY <1>1, <2>1, <2>2, <2>3
<1>3. mainthread'[np[s]] = mainthread[np[s]] /\ mainthread'[s] = mainthread[s]
  BY <1>2 DEF Calm
<1>4. MayCreate(s) => MayCreate(s)'
  BY <1>3 DEF MayCreate, Manages
<1> QED BY <1>1, <1>3, <1>4 DEF Memory, Creation

(* The layout, when nobody gets memory and everybody keeps what it has.    *)
LEMMA LayoutStays ==
  ASSUME Memory, Kernel', Creation', UNCHANGED <<pgdir, sz, stack>>,
         \A s \in Slots : HasMemory(s)' => HasMemory(s) /\ mainthread'[s] = mainthread[s],
         \A s \in Slots : HasMemory(s)' /\ mainthread[s] = s =>
                            pages'[s] = pages[s] /\ heap'[s] = heap[s]
  PROVE  Layout'
<1>1. HaveMains'
  BY MainsHave, PTL
<1>2. ASSUME NEW s \in Slots, HasMemory(s)' PROVE Laid(s)'
  <2>1. Laid(s) /\ mainthread'[s] = mainthread[s]
    BY <1>2 DEF Memory, Layout
  <2>2. PICK m \in Slots : m = mainthread[s] /\ mainthread'[m] = m /\ HasMemory(m)'
    BY <1>1, <1>2, <2>1 DEF HaveMains
  <2>3. mainthread[m] = m
    BY <2>2
  <2>4. heap'[m] = heap[m] /\ (m = s => pages'[s] = pages[s])
    BY <2>2, <2>3
  <2> QED BY <2>1, <2>2, <2>4 DEF Laid
<1> QED BY <1>2 DEF Memory, Layout

LEMMA CalmLayout ==
  ASSUME Memory, Kernel', Calm, UNCHANGED <<pgdir, sz, stack>>,
         \A s \in Slots : HasMemory(s)' /\ mainthread[s] = s =>
                            pages'[s] = pages[s] /\ heap'[s] = heap[s]
  PROVE  Creation' /\ Layout'
<1>1. Creation'
  BY CreationStays
<1>2. ASSUME NEW s \in Slots, HasMemory(s)'
      PROVE  HasMemory(s) /\ mainthread'[s] = mainthread[s]
  <2>1. CASE state'[s] \notin {"UNUSED", "EMBRYO"}
    BY <2>1 DEF Calm, HasMemory, Started
  <2>2. ASSUME NEW t \in Slots, pc'[t] = "thread_parent", np'[t] = s
        PROVE  HasMemory(s) /\ mainthread'[s] = mainthread[s]
    <3>1. pc[t] = "thread_parent" /\ np[t] = s
      BY <2>2 DEF Calm, Creating
    <3>2. state'[s] = "EMBRYO"
      BY <2>2 DEF Kernel, Creators, Creating
    <3> QED BY <3>1, <3>2 DEF Calm, HasMemory
  <2> QED BY <1>2, <2>1, <2>2 DEF HasMemory, Started
<1> QED BY <1>1, <1>2, LayoutStays

LEMMA CalmMemory ==
  ASSUME Memory, Kernel', Calm, UNCHANGED memory
  PROVE  Memory'
<1>1. MemoryTypeOK'
  BY DEF Memory, MemoryTypeOK, memory
<1> QED BY <1>1, CalmLayout DEF Memory, memory

LEMMA RunningHas ==
  ASSUME NEW s \in Slots, state[s] \in {"RUNNABLE", "RUNNING", "SLEEPING", "ZOMBIE"}
  PROVE  HasMemory(s)
BY DEF HasMemory, Started

(* Steps of one process in which others are at most woken or reaped, and   *)
(* after which it is creating nothing.                                     *)
LEMMA ActsCalmly ==
  ASSUME Kernel, NEW cur \in Slots,
         state[cur] = "RUNNING", state'[cur] # "EMBRYO",
         mainthread'[cur] = mainthread[cur],
         \A s \in Slots \ {cur} :
           /\ \/ state'[s] = state[s] /\ mainthread'[s] = mainthread[s]
              \/ /\ state[s] = "SLEEPING" /\ state'[s] = "RUNNABLE"
                 /\ mainthread'[s] = mainthread[s]
              \/ state'[s] = "UNUSED"
           /\ pc'[s] = pc[s] /\ np'[s] = np[s],
         pc'[cur] \notin Creating \/ (pc'[cur] = pc[cur] /\ np'[cur] = np[cur])
  PROVE  Calm
<1>1. HasMemory(cur)
  BY RunningHas
<1>2. ASSUME NEW s \in Slots, state[s] = "SLEEPING" PROVE HasMemory(s)
  BY <1>2, RunningHas
<1> QED BY <1>1, <1>2 DEF Calm

LEMMA ReturnIsCalm ==
  ASSUME Kernel, NEW c \in Cpus, cpu[c] # Nobody, Return(c),
         state'[cpu[c]] = "RUNNING", mainthread'[cpu[c]] = mainthread[cpu[c]],
         \A s \in Slots \ {cpu[c]} :
           \/ state'[s] = state[s] /\ mainthread'[s] = mainthread[s]
           \/ /\ state[s] = "SLEEPING" /\ state'[s] = "RUNNABLE"
              /\ mainthread'[s] = mainthread[s]
           \/ state'[s] = "UNUSED"
  PROVE  Calm
<1>1. PICK cur \in Slots : cur = cpu[c] /\ state[cur] = "RUNNING"
  BY CurrentRuns
<1>2. pc'[cur] = "user" /\ \A s \in Slots \ {cur} : pc'[s] = pc[s] /\ np'[s] = np[s]
  BY <1>1, ReturnsTo
<1> QED BY <1>1, <1>2, ActsCalmly DEF Creating

LEMMA SleepIsCalm ==
  ASSUME Kernel, NEW c \in Cpus, cpu[c] # Nobody, NEW ch,
         NEW where \in PCs \ Creating, SleepOn(c, ch, where),
         UNCHANGED <<np, mainthread>>
  PROVE  Calm
<1>1. PICK cur \in Slots : cur = cpu[c] /\ state[cur] = "RUNNING"
  BY CurrentRuns
<1>2. /\ pc'[cur] = where /\ state'[cur] = "SLEEPING"
      /\ \A s \in Slots \ {cur} : pc'[s] = pc[s] /\ state'[s] = state[s]
  BY <1>1, SleepsOn
<1> QED BY <1>1, <1>2, ActsCalmly

LEMMA FailOrSleepIsCalm ==
  ASSUME Kernel, NEW c \in Cpus, cpu[c] # Nobody, NEW S,
         NEW where \in {"wait", "thread_join"}, NEW n, FailOrSleep(c, S, where, n)
  PROVE  Calm
<1>1. CASE S = {} \/ killed[cpu[c]]
  <2>1. Return(c) /\ UNCHANGED <<state, mainthread>>
    BY <1>1 DEF FailOrSleep
  <2> QED BY <2>1, CurrentRuns, ReturnIsCalm
<1>2. CASE ~(S = {} \/ killed[cpu[c]])
  <2>1. SleepOn(c, cpu[c], where) /\ UNCHANGED <<np, mainthread>>
    BY <1>2 DEF FailOrSleep
  <2>2. where \in PCs \ Creating
    BY DEF PCs, Creating
  <2> QED BY <2>1, <2>2, SleepIsCalm
<1> QED BY <1>1, <1>2

LEMMA ReapIsCalm ==
  ASSUME Kernel, NEW c \in Cpus, cpu[c] # Nobody, NEW S,
         \A s \in S : s \in Slots /\ state[s] = "ZOMBIE",
         Clear(S), Return(c),
         \A s \in Slots \ S : mainthread'[s] = mainthread[s]
  PROVE  Calm
<1>1. cpu[c] \in Slots /\ state[cpu[c]] = "RUNNING" /\ cpu[c] \notin S
  BY CurrentRuns
<1>2. \A s \in Slots : IF s \in S THEN state'[s] = "UNUSED" ELSE state'[s] = state[s]
  BY ClearIs
<1> QED BY <1>1, <1>2, ReturnIsCalm

LEMMA WaitingIsCalm ==
  ASSUME Kernel, NEW c \in Cpus, Waiting(c) PROVE Calm
<1>1. CASE Wait(c)
  <2>1. cpu[c] # Nobody
    BY <1>1 DEF Wait, Call, At
  <2>2. ASSUME NEW S, FailOrSleep(c, S, "wait", 0) PROVE Calm
    BY <2>1, <2>2, FailOrSleepIsCalm
  <2>3. ASSUME NEW z \in Slots, state[z] = "ZOMBIE", NEW S,
               S = {z} \cup {s \in Slots : mainthread[s] = z /\ Live(s)},
               Clear(S), mainthread' = On(mainthread, S, Nobody), Return(c)
        PROVE  Calm
    <3>1. \A s \in S : s \in Slots /\ state[s] = "ZOMBIE"
      BY <2>3, ZombiesAreAlone
    <3>2. \A s \in Slots \ S : mainthread'[s] = mainthread[s]
      BY <2>3 DEF On, Kernel, TypeOK
    <3> QED BY <2>1, <2>3, <3>1, <3>2, ReapIsCalm
  <2> QED BY <1>1, <2>2, <2>3 DEF Wait, Zombies
<1>2. ASSUME NEW n, ThreadJoin(c, n) PROVE Calm
  <2>1. cpu[c] # Nobody
    BY <1>2 DEF ThreadJoin, Call, At
  <2>2. ASSUME NEW S, FailOrSleep(c, S, "thread_join", n) PROVE Calm
    BY <2>1, <2>2, FailOrSleepIsCalm
  <2>3. ASSUME NEW z \in Slots, state[z] = "ZOMBIE", Clear({z}),
               mainthread' = [mainthread EXCEPT ![z] = Nobody], Return(c)
        PROVE  Calm
    <3>1. \A s \in Slots \ {z} : mainthread'[s] = mainthread[s]
      BY <2>3 DEF Kernel, TypeOK
    <3> QED BY <2>1, <2>3, <3>1, ReapIsCalm
  <2> QED BY <1>2, <2>2, <2>3 DEF ThreadJoin, Zombies
<1>3. ASSUME NEW s \in Slots, WaitPid(c, s) PROVE Calm
  <2>1. cpu[c] # Nobody /\ UNCHANGED mainthread
    BY <1>3 DEF WaitPid, Call, At
  <2>2. CASE Zombies({s}) # {}
    <3>1. state[s] = "ZOMBIE" /\ Clear({s}) /\ Return(c)
      BY <1>3, <2>2 DEF WaitPid, Zombies
    <3> QED BY <2>1, <3>1, ReapIsCalm
  <2>3. CASE Zombies({s}) = {}
    <3>1. SleepOn(c, cpu[c], "waitpid") /\ UNCHANGED np
      BY <1>3, <2>3 DEF WaitPid
    <3>2. "waitpid" \in PCs \ Creating
      BY DEF PCs, Creating
    <3> QED BY <2>1, <3>1, <3>2, SleepIsCalm
  <2> QED BY <2>2, <2>3
<1> QED BY <1>1, <1>2, <1>3 DEF Waiting

LEMMA SignallingIsCalm ==
  ASSUME Kernel, NEW c \in Cpus, Signalling(c) PROVE Calm
<1>1. PICK cur \in Slots : cur = cpu[c] /\ state[cur] = "RUNNING"
  BY CurrentRuns DEF Signalling, Kill, GetChannel, GotChannel, SleepChan,
     SleepChanReturns, SigChan, SigOneChan, SigOneChanStores, Call, At
<1>c. cpu[c] # Nobody
  BY <1>1, ProcTableAssumption DEF ProcTableAssumption
<1>2. ASSUME NEW n \in KillPids, Kill(c, n) PROVE Calm
  <2>1. PICK s \in Slots : state' = [state EXCEPT ![s] = AfterKill(s)]
    BY <1>2 DEF Kill
  <2>2. \A t \in Slots : \/ state'[t] = state[t]
                         \/ state[t] = "SLEEPING" /\ state'[t] = "RUNNABLE"
    BY <2>1 DEF AfterKill, Kernel, TypeOK
  <2>3. UNCHANGED <<mainthread, pc, np>>
    BY <1>2 DEF Kill, locals
  <2> QED BY <1>1, <2>2, <2>3, ActsCalmly
<1>3. CASE GetChannel(c) \/ SigOneChan(c)
  <2>1. UNCHANGED <<state, mainthread, np>>
    BY <1>3 DEF GetChannel, SigOneChan, table
  <2>2. /\ pc'[cur] \in {"getChannel", "sigOneChan"}
        /\ \A s \in Slots \ {cur} : pc'[s] = pc[s]
    BY <1>1, <1>3 DEF GetChannel, SigOneChan, GoTo, Kernel, TypeOK
  <2> QED BY <1>1, <2>1, <2>2, ActsCalmly DEF Creating
<1>4. CASE GotChannel(c) \/ SleepChanReturns(c)
  <2>1. Return(c) /\ UNCHANGED <<state, mainthread>>
    BY <1>4 DEF GotChannel, SleepChanReturns
  <2> QED BY <1>1, <1>c, <2>1, ReturnIsCalm
<1>5. CASE SleepChan(c)
  <2>1. PICK ch : SleepOn(c, ch, "sleepChan")
    BY <1>5 DEF SleepChan
  <2>2. UNCHANGED <<np, mainthread>>
    BY <1>5 DEF SleepChan, locals
  <2>3. "sleepChan" \in PCs \ Creating
    BY DEF PCs, Creating
  <2> QED BY <1>c, <2>1, <2>2, <2>3, SleepIsCalm
<1>6. CASE SigChan(c)
  <2>1. PICK ch : state' = Woken(state, ch)
    BY <1>6 DEF SigChan
  <2>2. \A t \in Slots : \/ state'[t] = state[t]
                         \/ state[t] = "SLEEPING" /\ state'[t] = "RUNNABLE"
    BY <2>1, WokenIs DEF Kernel, TypeOK
  <2>3. UNCHANGED <<mainthread, pc, np>>
    BY <1>6 DEF SigChan, locals
  <2> QED BY <1>1, <2>2, <2>3, ActsCalmly
<1>7. CASE SigOneChanStores(c)
  <2>1. pc[cur] = "sigOneChan"
    BY <1>1, <1>7 DEF SigOneChanStores, At
  <2>2. PICK s \in Slots : s = ptr[cur] /\ state[s] = "SLEEPING"
    BY <2>1, ProcTableAssumption
       DEF Kernel, TypeOK, Signallers, ProcTableAssumption
  <2>3. /\ state'[s] = "RUNNABLE" /\ \A t \in Slots \ {s} : state'[t] = state[t]
        /\ UNCHANGED mainthread /\ Return(c)
    BY <1>1, <1>7, <2>2 DEF SigOneChanStores, Kernel, TypeOK
  <2> QED BY <1>1, <1>c, <2>2, <2>3, ReturnIsCalm
<1> QED BY <1>2, <1>3, <1>4, <1>5, <1>6, <1>7 DEF Signalling

LEMMA SchedulingIsCalm ==
  ASSUME Kernel, NEW c \in Cpus, Scheduler(c) \/ Yield(c) PROVE Calm
<1>1. UNCHANGED <<mainthread, pc, np>>
  BY DEF Scheduler, Yield, locals
<1>2. PICK s \in Slots, r \in {"RUNNING", "RUNNABLE"} :
         /\ state[s] \in {"RUNNING", "RUNNABLE"}
         /\ state' = [state EXCEPT ![s] = r]
  <2>1. CASE Scheduler(c)
    BY <2>1 DEF Scheduler
  <2>2. CASE Yield(c)
    <3>1. cpu[c] # Nobody /\ state' = [state EXCEPT ![cpu[c]] = "RUNNABLE"]
      BY <2>2 DEF Yield
    <3> QED BY <3>1, CurrentRuns
  <2> QED BY <2>1, <2>2
<1>3. state'[s] = r /\ \A t \in Slots \ {s} : state'[t] = state[t]
  BY <1>2 DEF Kernel, TypeOK
<1>4. HasMemory(s)
  BY <1>2, RunningHas
<1> QED BY <1>1, <1>3, <1>4 DEF Calm

LEMMA ExitIsCalm ==
  ASSUME Kernel, NEW c \in Cpus, Exit(c) PROVE Calm
<1>1. PICK cur \in Slots : cur = cpu[c] /\ state[cur] = "RUNNING"
  BY CurrentRuns DEF Exit, At
<1>2. /\ state'[cur] = "ZOMBIE"
      /\ \A s \in Slots \ {cur} :
           \/ state'[s] = state[s]
           \/ state[s] = "SLEEPING" /\ state'[s] = "RUNNABLE"
  BY <1>1, ExitWakes
<1>3. /\ UNCHANGED <<mainthread, np>> /\ pc'[cur] = "zombie"
      /\ \A s \in Slots \ {cur} : pc'[s] = pc[s]
  BY <1>1 DEF Exit, GoTo, locals, Kernel, TypeOK
<1> QED BY <1>1, <1>2, <1>3, ActsCalmly DEF Creating

LEMMA AllocFailedIsCalm ==
  ASSUME Kernel, NEW c \in Cpus, AllocFailed(c) PROVE Calm
<1>1. PICK cur \in Slots : cur = cpu[c] /\ state[cur] = "RUNNING" /\ cpu[c] # Nobody
  BY CurrentRuns DEF AllocFailed, At
<1>2. PICK new \in Slots : new = np[cur] /\ state[new] = "EMBRYO"
  <2>1. pc[cur] \in Creating
    BY <1>1 DEF AllocFailed, At, Creating
  <2> QED BY <2>1, CreatorIs
<1>3. /\ state'[new] = "UNUSED" /\ \A s \in Slots \ {new} : state'[s] = state[s]
      /\ UNCHANGED mainthread /\ Return(c)
  BY <1>1, <1>2 DEF AllocFailed, Kernel, TypeOK
<1> QED BY <1>1, <1>2, <1>3, ReturnIsCalm

(* The thread that becomes runnable has had its memory before.             *)
LEMMA ThreadStartIsCalm ==
  ASSUME Kernel, NEW c \in Cpus, ThreadStart(c) PROVE Calm
<1>1. PICK cur \in Slots : /\ cur = cpu[c] /\ state[cur] = "RUNNING"
                           /\ pc[cur] = "thread_parent"
  BY CurrentRuns DEF ThreadStart, At
<1>2. PICK new \in Slots : new = np[cur] /\ state[new] = "EMBRYO"
  BY <1>1, CreatorIs DEF Creating
<1>3. HasMemory(new)
  BY <1>1, <1>2 DEF HasMemory
<1>4. /\ state' = [state EXCEPT ![new] = "RUNNABLE"] /\ UNCHANGED mainthread
      /\ pc' = [pc EXCEPT ![cur] = "user", ![new] = "user"]
      /\ np' = [np EXCEPT ![cur] = Nobody]
  BY <1>1, <1>2 DEF ThreadStart, Publish
<1>5. /\ state'[new] = "RUNNABLE" /\ \A s \in Slots \ {new} : state'[s] = state[s]
      /\ pc'[new] = "user" /\ pc'[cur] = "user"
      /\ \A s \in Slots \ {cur, new} : pc'[s] = pc[s] /\ np'[s] = np[s]
  BY <1>4 DEF Kernel, TypeOK
<1> QED BY <1>3, <1>4, <1>5 DEF Calm, Creating

-----------------------------------------------------------------------------
(* The steps that change the memory, one lemma for each.                   *)

(* Sizes are numbers, and a layout in them. *)
LEMMA SizesOf ==
  ASSUME Memory, NEW s \in Slots
  PROVE  /\ sz[s] \in Nat /\ sz[s] <= MaxSize /\ stack[s] \in Nat
         /\ stack[s] \in PagesBelow(MaxSize)
         /\ heap[s] \in SUBSET (0..(MaxSize - 1))
         /\ pages[s] \in SUBSET PagesBelow(MaxSize)
<1>0. MaxSize \in Nat
  BY AddressSpaceAssumption
<1>1. /\ sz[s] \in 0..MaxSize /\ stack[s] \in PagesBelow(MaxSize)
      /\ heap[s] \in SUBSET (0..(MaxSize - 1)) /\ pages[s] \in SUBSET PagesBelow(MaxSize)
  BY DEF Memory, MemoryTypeOK
<1>2. PagesBelow(MaxSize) = 0..(NextPage(MaxSize) - 1) /\ NextPage(MaxSize) \in Nat
  BY <1>0, NextPageIs
<1> QED BY <1>0, <1>1, <1>2

LEMMA AllocateMemory ==
  ASSUME Memory, Kernel', NEW c \in Cpus, Allocate(c)
  PROVE  Memory'
<1>k. Kernel
  BY DEF Memory
<1>1. PICK cur \in Slots : cur = cpu[c] /\ state[cur] = "RUNNING" /\ pc[cur] = "user"
  BY <1>k, CurrentRuns DEF Allocate, AllocProc, Call, At
<1>2. PICK new \in Slots : /\ state[new] = "UNUSED"
                           /\ state' = [state EXCEPT ![new] = "EMBRYO"]
                           /\ mainthread' = [mainthread EXCEPT ![new] = new]
                           /\ np' = [np EXCEPT ![cur] = new]
  BY <1>1 DEF Allocate, AllocProc
<1>3. PICK call \in {"fork", "thread_create"} :
         pc' = [pc EXCEPT ![cur] = call] /\ (call = "thread_create" => MayCreate(cur))
  <2>1. PICK call \in {"fork", "thread_create"} : pc' = [pc EXCEPT ![cur] = call]
    BY <1>1 DEF Allocate, AllocProc, GoTo
  <2>2. pc'[cur] = call
    BY <1>k, <2>1 DEF Kernel, TypeOK
  <2> QED BY <1>1, <2>1, <2>2 DEF Allocate
<1>4. /\ state'[new] = "EMBRYO" /\ mainthread'[new] = new
      /\ \A s \in Slots \ {new} : state'[s] = state[s] /\ mainthread'[s] = mainthread[s]
      /\ pc'[cur] = call /\ np'[cur] = new
      /\ \A s \in Slots \ {cur} : pc'[s] = pc[s] /\ np'[s] = np[s]
  BY <1>k, <1>2, <1>3 DEF Kernel, TypeOK
<1>5. UNCHANGED memory
  BY DEF Allocate
<1>6. Creation'
  <2>1. ASSUME NEW s \in Slots \ {cur}, pc[s] \in Creating
        PROVE  /\ mainthread'[s] = mainthread[s] /\ mainthread'[np[s]] = mainthread[np[s]]
               /\ MayCreate(s) => MayCreate(s)'
    <3>1. s # new /\ np[s] # new /\ np[s] \in Slots
      BY <1>k, <1>2, <2>1, CreatorIs DEF Started
    <3> QED BY <1>4, <1>5, <3>1 DEF MayCreate, Manages, memory
  <2>2. MayCreate(cur) => MayCreate(cur)'
    BY <1>1, <1>2, <1>4, <1>5 DEF MayCreate, Manages, memory
  <2> QED BY <1>3, <1>4, <2>1, <2>2 DEF Memory, Creation, Creating
<1>7. ASSUME NEW s \in Slots, HasMemory(s)'
      PROVE  HasMemory(s) /\ mainthread'[s] = mainthread[s]
  <2>1. CASE state'[s] \notin {"UNUSED", "EMBRYO"}
    BY <1>4, <2>1 DEF HasMemory, Started
  <2>2. ASSUME NEW t \in Slots, pc'[t] = "thread_parent", np'[t] = s
        PROVE  HasMemory(s) /\ mainthread'[s] = mainthread[s]
    <3>1. t # cur
      BY <1>4, <2>2
    <3>2. pc[t] = "thread_parent" /\ np[t] = s
      BY <1>4, <2>2, <3>1
    <3>3. state[s] = "EMBRYO"
      BY <1>k, <3>2, CreatorIs DEF Creating
    <3> QED BY <1>2, <1>4, <3>2, <3>3 DEF HasMemory
  <2> QED BY <1>7, <2>1, <2>2 DEF HasMemory, Started
<1>8. MemoryTypeOK'
  BY <1>5 DEF Memory, MemoryTypeOK, memory
<1>9. Layout'
  BY <1>5, <1>6, <1>7, LayoutStays DEF memory
<1> QED BY <1>6, <1>8, <1>9 DEF Memory

(* The child has what the caller sees of its memory, in a page table of its*)
(* own.                                                                    *)
LEMMA CopyUvmMemory ==
  ASSUME Memory, Kernel', NEW c \in Cpus, CopyUvm(c)
  PROVE  Memory'
<1>k. Kernel /\ HaveMains
  BY MainsHave DEF Memory
<1>0. MaxSize \in Nat
  BY AddressSpaceAssumption
<1>1. PICK cur \in Slots : cur = cpu[c] /\ state[cur] = "RUNNING" /\ pc[cur] = "fork"
  BY <1>k, CurrentRuns DEF CopyUvm, Fork, At
<1>2. PICK new \in Slots : /\ new = np[cur] /\ state[new] = "EMBRYO" /\ new # cur
                           /\ \A t \in Slots : pc[t] \in Creating /\ np[t] = new => t = cur
  BY <1>k, <1>1, CreatorIs DEF Creating
<1>3. /\ state' = [state EXCEPT ![new] = "RUNNABLE"]
      /\ pc' = [pc EXCEPT ![cur] = "user", ![new] = "user"]
      /\ np' = [np EXCEPT ![cur] = Nobody]
      /\ UNCHANGED mainthread
  BY <1>1, <1>2 DEF CopyUvm, Fork, Publish
<1>4. /\ state'[new] = "RUNNABLE" /\ \A s \in Slots \ {new} : state'[s] = state[s]
      /\ pc'[new] = "user" /\ pc'[cur] = "user"
      /\ \A s \in Slots \ {cur, new} : pc'[s] = pc[s]
      /\ \A s \in Slots \ {cur} : np'[s] = np[s]
  BY <1>k, <1>2, <1>3 DEF Kernel, TypeOK
<1>5. PICK m \in Slots : /\ m = mainthread[cur] /\ m = pgdir[cur] /\ Laid(cur) /\ HasMemory(cur)
  <2>1. HasMemory(cur)
    BY <1>1, RunningHas
  <2> QED BY <2>1 DEF Memory, Layout, Laid
<1>6. /\ pgdir' = [pgdir EXCEPT ![new] = new]
      /\ pages' = [pages EXCEPT ![new] = PagesBelow(sz[cur])]
      /\ sz' = [sz EXCEPT ![new] = sz[cur]]
      /\ stack' = [stack EXCEPT ![new] = stack[cur]]
      /\ heap' = [heap EXCEPT ![new] = {u \in heap[m] : u < sz[cur]}]
  BY <1>1, <1>2, <1>5 DEF CopyUvm
<1>7. /\ pgdir'[new] = new /\ pages'[new] = PagesBelow(sz[cur]) /\ sz'[new] = sz[cur]
      /\ stack'[new] = stack[cur] /\ heap'[new] = {u \in heap[m] : u < sz[cur]}
      /\ \A s \in Slots \ {new} : /\ pgdir'[s] = pgdir[s] /\ pages'[s] = pages[s]
                                  /\ sz'[s] = sz[s] /\ stack'[s] = stack[s]
                                  /\ heap'[s] = heap[s]
  BY <1>6 DEF Memory, MemoryTypeOK
<1>8. MemoryTypeOK'
  <2>1. PagesBelow(sz[cur]) \subseteq PagesBelow(MaxSize)
    BY <1>0, SizesOf, PagesGrow
  <2>2. {u \in heap[m] : u < sz[cur]} \subseteq 0..(MaxSize - 1)
    BY SizesOf
  <2>3. MemoryTypeOK
    BY DEF Memory
  <2> QED BY <1>6, <2>1, <2>2, <2>3 DEF MemoryTypeOK
<1>9. Creation'
  <2>1. ASSUME NEW s \in Slots, pc'[s] \in Creating
        PROVE  /\ pc[s] = pc'[s] /\ np'[s] = np[s]
               /\ MayCreate(s) => MayCreate(s)'
    <3>1. s \notin {cur, new}
      BY <1>4, <2>1 DEF Creating
    <3> QED BY <1>3, <1>4, <1>7, <3>1 DEF MayCreate, Manages
  <2>2. Creation
    BY DEF Memory
  <2> QED BY <1>3, <2>1, <2>2 DEF Creation, Creating
<1>10. mainthread[new] = new
  BY <1>1, <1>2 DEF Memory, Creation
<1>11. ASSUME NEW s \in Slots, s # new, HasMemory(s)'
       PROVE  HasMemory(s) /\ mainthread[s] # new /\ mainthread[s] \in Slots
  <2>1. HasMemory(s)
    BY <1>4, <1>11 DEF HasMemory, Started
  <2>2. mainthread[s] \in Started /\ mainthread[s] \in Slots
    BY <1>k, <2>1 DEF HaveMains
  <2> QED BY <1>2, <2>1, <2>2 DEF Started
<1>12. ASSUME NEW s \in Slots, s # new, HasMemory(s)' PROVE Laid(s)'
  <2>1. Laid(s) /\ mainthread[s] # new /\ mainthread[s] \in Slots
    BY <1>11, <1>12 DEF Memory, Layout
  <2> QED BY <1>3, <1>7, <1>12, <2>1 DEF Laid
<1>13. Laid(new)'
  <2>1. /\ Top(stack[cur]) <= sz[cur] /\ UnitsOf(stack[cur]) \cap heap[m] = {}
        /\ sz[cur] \in Nat
    BY <1>5, SizesOf DEF Laid
  <2> QED BY <1>3, <1>7, <1>10, <2>1 DEF Laid
<1>14. Layout'
  <2>1. \A s \in Slots : HasMemory(s)' => Laid(s)'
    BY <1>12, <1>13
  <2>2. ASSUME NEW s \in Slots, NEW t \in Slots, HasMemory(s)', HasMemory(t)', s # t,
               mainthread'[s] = mainthread'[t]
        PROVE  stack'[s] # stack'[t]
    <3>1. s # new /\ t # new
      BY <1>3, <1>10, <1>11, <2>2
    <3>2. HasMemory(s) /\ HasMemory(t)
      BY <1>11, <2>2, <3>1
    <3> QED BY <1>3, <1>7, <2>2, <3>1, <3>2 DEF Memory, Layout
  <2> QED BY <2>1, <2>2 DEF Layout
<1> QED BY <1>8, <1>9, <1>14 DEF Memory

(* A new stack is the page behind the main thread's last, which is aligned:*)
(* above what sbrk has handed out and above every other stack.             *)
LEMMA CreateThreadStackMemory ==
  ASSUME AllMemoryRules \subseteq MemoryRules,
         Memory, Kernel', NEW c \in Cpus, CreateThreadStack(c)
  PROVE  Memory'
<1>k. Kernel /\ HaveMains
  BY MainsHave DEF Memory
<1>0. MaxSize \in Nat /\ PageSize \in Nat \ {0}
  BY AddressSpaceAssumption
<1>1. PICK cur \in Slots : /\ cur = cpu[c] /\ state[cur] = "RUNNING"
                           /\ pc[cur] = "thread_create"
  BY <1>k, CurrentRuns DEF CreateThreadStack, ThreadCreate, At
<1>2. PICK new \in Slots : /\ new = np[cur] /\ state[new] = "EMBRYO" /\ new # cur
                           /\ \A t \in Slots : pc[t] \in Creating /\ np[t] = new => t = cur
  BY <1>k, <1>1, CreatorIs DEF Creating
<1>3. /\ mainthread[cur] = cur /\ sz[cur] % PageSize = 0
      /\ (NextPage(sz[cur]) + 1) * PageSize <= MaxSize
  BY <1>1 DEF Memory, Creation, MayCreate, Manages, AllMemoryRules
<1>4. /\ mainthread' = [mainthread EXCEPT ![new] = cur]
      /\ pc' = [pc EXCEPT ![cur] = "thread_parent"]
      /\ UNCHANGED <<state, np>>
  BY <1>1, <1>2, <1>3 DEF CreateThreadStack, ThreadCreate, Group, GoTo
<1>5. /\ mainthread'[new] = cur /\ pc'[cur] = "thread_parent"
      /\ \A s \in Slots \ {new} : mainthread'[s] = mainthread[s]
      /\ \A s \in Slots \ {cur} : pc'[s] = pc[s]
  BY <1>k, <1>4 DEF Kernel, TypeOK
<1>6. HasMemory(cur) /\ Laid(cur) /\ pgdir[cur] = cur
  <2>1. HasMemory(cur)
    BY <1>1, RunningHas
  <2>2. Laid(cur)
    BY <2>1 DEF Memory, Layout
  <2> QED BY <1>3, <2>1, <2>2 DEF Laid
<1>7. PICK p, size : p = NextPage(sz[cur]) /\ size = sz[cur]
  OBVIOUS
<1>8. /\ size \in Nat /\ p \in Nat /\ p * PageSize = size /\ Top(p) = size + PageSize
      /\ Top(p) <= MaxSize /\ p # 0
      /\ size + PageSize \in Nat
      /\ PagesBelow(size + PageSize) = PagesBelow(size) \cup {p}
  <2>1. size \in Nat /\ stack[cur] \in Nat
    BY <1>7, SizesOf
  <2>2. p \in Nat /\ p * PageSize = size
    BY <1>3, <1>7, <2>1, NextPageIs, Aligned
  <2>3. Top(p) = size + PageSize
    BY <2>2, Units
  <2>4. p # 0
    <3>1. PageSize <= size
      <4>1. Top(stack[cur]) <= size
        BY <1>6, <1>7 DEF Laid
      <4>2. Top(stack[cur]) \in Nat /\ PageSize <= Top(stack[cur])
        BY <2>1, TopIs
      <4> QED BY <1>0, <2>1, <1>7, <4>1, <4>2
    <3>2. 0 * PageSize = 0
      BY <1>0
    <3> QED BY <1>0, <2>2, <3>1, <3>2
  <2> QED BY <1>3, <1>7, <2>1, <2>2, <2>3, <2>4, OnePageMore DEF Top
<1>9. /\ pgdir' = [pgdir EXCEPT ![new] = cur]
      /\ pages' = [pages EXCEPT ![cur] = @ \cup {p}]
      /\ stack' = [stack EXCEPT ![new] = p]
      /\ sz' = [sz EXCEPT ![cur] = size + PageSize, ![new] = size + PageSize]
      /\ heap' = heap
  <2>1. StackPages(sz[cur]) = {p}
    BY <1>7 DEF StackPages, AllMemoryRules
  <2>2. {p} \ {0} = {p}
    BY <1>8
  <2>3. /\ pgdir' = [pgdir EXCEPT ![new] = pgdir[cur]]
        /\ pages' = [pages EXCEPT ![pgdir[cur]] = @ \cup ({p} \ {0})]
        /\ stack' = [stack EXCEPT ![new] = p]
        /\ sz' = BothGrow(cur, new) /\ heap' = heap
    BY <1>1, <1>2, <2>1 DEF CreateThreadStack
  <2>4. BothGrow(cur, new) = [sz EXCEPT ![cur] = size + PageSize, ![new] = size + PageSize]
    BY <1>7 DEF BothGrow
  <2> QED BY <1>6, <2>2, <2>3, <2>4
<1>10. /\ pgdir'[new] = cur /\ stack'[new] = p /\ sz'[new] = size + PageSize
       /\ pgdir'[cur] = cur /\ stack'[cur] = stack[cur] /\ sz'[cur] = size + PageSize
       /\ pages'[cur] = PagesBelow(size + PageSize)
       /\ \A s \in Slots \ {new, cur} :
            /\ pgdir'[s] = pgdir[s] /\ pages'[s] = pages[s]
            /\ sz'[s] = sz[s] /\ stack'[s] = stack[s]
  <2>1. pages[cur] = PagesBelow(size)
    BY <1>3, <1>6, <1>7 DEF Laid
  <2> QED BY <1>2, <1>6, <1>8, <1>9, <2>1 DEF Memory, MemoryTypeOK
<1>11. MemoryTypeOK'
  <2>1. p \in PagesBelow(MaxSize)
    <3>1. PICK q \in Nat : q = NextPage(MaxSize) /\ MaxSize <= q * PageSize
      BY <1>0, NextPageIs
    <3>2. q <= p => q * PageSize <= p * PageSize
      BY <1>0, <1>8, Products
    <3>3. p < q
      <4>1. q * PageSize \in Int /\ p * PageSize \in Int
        BY <1>0, <1>8, Products
      <4> QED BY <1>0, <1>8, <3>1, <3>2, <4>1
    <3>4. PagesBelow(MaxSize) = 0..(q - 1)
      BY <1>0, <3>1, NextPageIs
    <3> QED BY <1>8, <3>3, <3>4
  <2>2. size + PageSize \in 0..MaxSize
    BY <1>0, <1>8
  <2>3. pages[cur] \cup {p} \in SUBSET PagesBelow(MaxSize)
    BY <2>1, SizesOf
  <2>4. MemoryTypeOK
    BY DEF Memory
  <2> QED BY <1>9, <2>1, <2>2, <2>3, <2>4 DEF MemoryTypeOK
<1>12. Creation'
  <2>1. ASSUME NEW s \in Slots \ {cur}, pc'[s] \in Creating
        PROVE  /\ pc[s] = pc'[s] /\ np'[s] = np[s] /\ mainthread'[s] = mainthread[s]
               /\ mainthread'[np[s]] = mainthread[np[s]]
               /\ MayCreate(s) => MayCreate(s)'
    <3>1. pc[s] = pc'[s]
      BY <1>5, <2>1
    <3>2. s # new /\ np[s] # new /\ np[s] \in Slots
      BY <1>k, <1>2, <2>1, <3>1, CreatorIs DEF Started
    <3> QED BY <1>4, <1>5, <1>10, <3>1, <3>2 DEF MayCreate, Manages
  <2>2. mainthread'[cur] = cur /\ mainthread'[np'[cur]] = cur
    BY <1>2, <1>3, <1>4, <1>5
  <2> QED BY <1>5, <2>1, <2>2 DEF Memory, Creation, Creating
<1>13. ASSUME NEW s \in Slots, s # new, HasMemory(s)'
       PROVE  /\ HasMemory(s) /\ mainthread'[s] = mainthread[s]
              /\ mainthread[s] # new /\ mainthread[s] \in Slots
  <2>1. HasMemory(s)
    <3>1. ASSUME NEW t \in Slots, pc'[t] = "thread_parent", np'[t] = s
          PROVE  pc[t] = "thread_parent" /\ np[t] = s
      BY <1>2, <1>4, <1>5, <1>13, <3>1
    <3> QED BY <1>4, <1>13, <3>1 DEF HasMemory, Started
  <2>2. mainthread[s] \in Started /\ mainthread[s] \in Slots
    BY <1>k, <2>1 DEF HaveMains
  <2> QED BY <1>2, <1>5, <1>13, <2>1, <2>2 DEF Started
<1>14. Laid(new)'
  <2>1. UnitsOf(p) \cap heap[cur] = {}
    <3>1. UnitsOf(p) = size .. (Top(p) - 1)
      BY <1>8, Units
    <3>2. \A u \in heap[cur] : u < size
      BY <1>3, <1>6, <1>7 DEF Laid
    <3>3. \A u \in heap[cur] : u \in Nat
      BY SizesOf
    <3> QED BY <1>8, <3>1, <3>2, <3>3
  <2> QED BY <1>2, <1>5, <1>8, <1>9, <1>10, <2>1 DEF Laid
<1>15. Laid(cur)'
  <2>1. /\ Top(stack[cur]) <= size /\ UnitsOf(stack[cur]) \cap heap[cur] = {}
        /\ \A u \in heap[cur] : u < size
    BY <1>3, <1>6, <1>7 DEF Laid
  <2>2. Top(stack[cur]) <= size + PageSize
    <3>1. Top(stack[cur]) \in Nat
      BY SizesOf, TopIs
    <3> QED BY <1>0, <1>8, <2>1, <3>1
  <2>3. \A u \in heap[cur] : u < size + PageSize
    <3>1. \A u \in heap[cur] : u \in Nat
      BY SizesOf
    <3> QED BY <1>0, <1>8, <2>1, <3>1
  <2>4. /\ mainthread'[cur] = cur /\ pgdir'[cur] = cur /\ stack'[cur] = stack[cur]
        /\ sz'[cur] = size + PageSize /\ heap'[cur] = heap[cur]
        /\ pages'[cur] = PagesBelow(size + PageSize)
    BY <1>2, <1>3, <1>5, <1>9, <1>10
  <2>5. sz'[cur] <= sz'[cur]
    BY <1>8, <2>4
  <2> QED BY <2>1, <2>2, <2>3, <2>4, <2>5 DEF Laid
<1>16. ASSUME NEW s \in Slots, s # new, s # cur, HasMemory(s)' PROVE Laid(s)'
  <2>1. PICK m \in Slots : /\ m = mainthread[s] /\ m = mainthread'[s] /\ m # new
                           /\ Laid(s)
    BY <1>13, <1>16 DEF Memory, Layout
  <2>2. sz[s] <= sz'[m]
    <3>1. sz[s] <= sz[m] /\ sz[s] \in Nat
      BY <2>1, SizesOf DEF Laid
    <3> QED BY <1>0, <1>7, <1>8, <1>10, <2>1, <3>1
  <2>3. /\ pgdir'[s] = pgdir[s] /\ pages'[s] = pages[s] /\ sz'[s] = sz[s]
        /\ stack'[s] = stack[s] /\ heap' = heap
    BY <1>9, <1>10, <1>16
  <2> QED BY <2>1, <2>2, <2>3 DEF Laid
<1>17. ASSUME NEW t \in Slots, t # new, HasMemory(t)', mainthread'[t] = cur
       PROVE  stack[t] # p
  <2>1. Laid(t) /\ mainthread[t] = cur
    BY <1>13, <1>17 DEF Memory, Layout
  <2>2. Top(stack[t]) <= size /\ Top(stack[t]) \in Nat
    <3>1. Top(stack[t]) <= sz[t] /\ sz[t] <= size /\ stack[t] \in Nat /\ sz[t] \in Nat
      BY <1>7, <2>1, SizesOf DEF Laid
    <3>2. Top(stack[t]) \in Nat
      BY <3>1, TopIs
    <3> QED BY <1>8, <3>1, <3>2
  <2> QED BY <1>0, <1>8, <2>2
<1>18. Layout'
  <2>1. \A s \in Slots : HasMemory(s)' => Laid(s)'
    BY <1>14, <1>15, <1>16
  <2>2. \A s \in Slots \ {new} : stack'[s] = stack[s]
    BY <1>10
  <2>3. ASSUME NEW s \in Slots, NEW t \in Slots, HasMemory(s)', HasMemory(t)', s # t,
               mainthread'[s] = mainthread'[t]
        PROVE  stack'[s] # stack'[t]
    <3>1. CASE s = new
      BY <1>5, <1>10, <1>17, <2>2, <2>3, <3>1
    <3>2. CASE t = new
      BY <1>5, <1>10, <1>17, <2>2, <2>3, <3>2
    <3>3. CASE s # new /\ t # new
      BY <1>13, <2>2, <2>3, <3>3 DEF Memory, Layout
    <3> QED BY <3>1, <3>2, <3>3
  <2> QED BY <2>1, <2>3 DEF Layout
<1> QED BY <1>11, <1>12, <1>18 DEF Memory

(* What sbrk makes of an address space fits when every stack in it stays   *)
(* below the new size and outside of what is handed out.                   *)
Fits(cur, size, handed) ==
  /\ size \in Nat /\ size <= MaxSize
  /\ handed \in SUBSET (0..(MaxSize - 1)) /\ \A u \in handed : u < size
  /\ \A s \in Slots : Laid(s) /\ mainthread[s] = cur =>
       UnitsOf(stack[s]) \cap handed = {} /\ Top(stack[s]) <= size

Resized(cur, size, handed) ==
  /\ UNCHANGED <<vars, pgdir, stack>>
  /\ pages' = [pages EXCEPT ![cur] = PagesBelow(size)]
  /\ sz' = [sz EXCEPT ![cur] = size]
  /\ heap' = [heap EXCEPT ![cur] = handed]

LEMMA ResizedMemory ==
  ASSUME Memory, Kernel', NEW cur \in Slots, HasMemory(cur), mainthread[cur] = cur,
         pc[cur] = "user",
         NEW size, NEW handed, Fits(cur, size, handed), Resized(cur, size, handed)
  PROVE  Memory'
<1>f. /\ size \in Nat /\ size <= MaxSize
      /\ handed \in SUBSET (0..(MaxSize - 1)) /\ \A u \in handed : u < size
      /\ \A s \in Slots : Laid(s) /\ mainthread[s] = cur =>
           UnitsOf(stack[s]) \cap handed = {} /\ Top(stack[s]) <= size
  BY DEF Fits
<1>r. /\ UNCHANGED <<vars, pgdir, stack>>
      /\ pages' = [pages EXCEPT ![cur] = PagesBelow(size)]
      /\ sz' = [sz EXCEPT ![cur] = size]
      /\ heap' = [heap EXCEPT ![cur] = handed]
  BY DEF Resized
<1>k. Kernel /\ HaveMains
  BY MainsHave DEF Memory
<1>0. MaxSize \in Nat
  BY AddressSpaceAssumption
<1>1. UNCHANGED <<state, mainthread, pc, np>>
  BY <1>r DEF vars, table, locals
<1>2. /\ pages'[cur] = PagesBelow(size) /\ sz'[cur] = size /\ heap'[cur] = handed
      /\ \A s \in Slots \ {cur} : pages'[s] = pages[s] /\ sz'[s] = sz[s] /\ heap'[s] = heap[s]
  BY <1>r DEF Memory, MemoryTypeOK
<1>3. MemoryTypeOK'
  <2>1. PagesBelow(size) \subseteq PagesBelow(MaxSize) /\ size \in 0..MaxSize
    BY <1>0, <1>f, PagesGrow
  <2> QED BY <1>f, <1>r, <2>1 DEF Memory, MemoryTypeOK
<1>4. Creation'
  <2>1. ASSUME NEW s \in Slots, pc[s] = "thread_create", MayCreate(s) PROVE MayCreate(s)'
    <3>1. s # cur
      BY <2>1
    <3> QED BY <1>1, <1>2, <2>1, <3>1 DEF MayCreate, Manages
  <2> QED BY <1>1, <2>1 DEF Memory, Creation
<1>5. \A s \in Slots : HasMemory(s)' <=> HasMemory(s)
  BY <1>1 DEF HasMemory, Started
<1>6. ASSUME NEW s \in Slots, HasMemory(s) PROVE Laid(s)'
  <2>1. Laid(s)
    BY <1>6 DEF Memory, Layout
  <2>2. CASE mainthread[s] = cur
    <3>1. /\ UnitsOf(stack[s]) \cap handed = {} /\ Top(stack[s]) <= size
          /\ pgdir[s] = cur /\ (s # cur => sz[s] = Top(stack[s]))
      BY <1>f, <2>1, <2>2 DEF Laid
    <3>2. CASE s = cur
      BY <1>1, <1>2, <1>f, <1>r, <2>2, <3>1, <3>2 DEF Laid
    <3>3. CASE s # cur
      <4>1. sz'[s] = sz[s] /\ sz[s] <= size /\ Top(stack[s]) <= sz[s]
        BY <1>2, <2>1, <3>1, <3>3 DEF Laid
      <4> QED BY <1>1, <1>2, <1>f, <1>r, <2>2, <3>1, <3>3, <4>1 DEF Laid
    <3> QED BY <3>2, <3>3
  <2>3. CASE mainthread[s] # cur
    <3>1. s # cur
      BY <2>3
    <3>2. mainthread[s] \in Slots \ {cur}
      BY <2>1, <2>3 DEF Laid
    <3> QED BY <1>1, <1>2, <1>r, <2>1, <3>1, <3>2 DEF Laid
  <2> QED BY <2>2, <2>3
<1>7. Layout'
  BY <1>1, <1>5, <1>6, <1>r DEF Memory, Layout
<1> QED BY <1>3, <1>4, <1>7 DEF Memory

LEMMA SbrkMemory ==
  ASSUME AllMemoryRules \subseteq MemoryRules,
         Memory, Kernel', NEW c \in Cpus, NEW n \in Increments, Sbrk(c, n)
  PROVE  Memory'
<1>k. Kernel
  BY DEF Memory
<1>0. MaxSize \in Nat /\ PageSize \in Nat \ {0} /\ n \in Int
  BY AddressSpaceAssumption
<1>1. PICK cur \in Slots : cur = cpu[c] /\ state[cur] = "RUNNING" /\ pc[cur] = "user"
  BY <1>k, CurrentRuns DEF Sbrk, At
<1>2. /\ mainthread[cur] = cur /\ UNCHANGED <<vars, pgdir, stack>>
      /\ Grow(cur, n) \/ Shrink(cur, n)
  BY <1>1 DEF Sbrk, Manages, AllMemoryRules
<1>3. HasMemory(cur) /\ Laid(cur)
  <2>1. HasMemory(cur)
    BY <1>1, RunningHas
  <2> QED BY <2>1 DEF Memory, Layout
<1>4. PICK old, size : old = sz[cur] /\ size = sz[cur] + n
  OBVIOUS
<1>5. /\ pgdir[cur] = cur /\ pages[cur] = PagesBelow(old) /\ old \in Nat
      /\ old <= MaxSize
      /\ heap[cur] \in SUBSET (0..(MaxSize - 1)) /\ \A u \in heap[cur] : u < old /\ u \in Nat
  BY <1>2, <1>3, <1>4, SizesOf DEF Laid
<1>6. ASSUME NEW s \in Slots, Laid(s), mainthread[s] = cur
      PROVE  /\ UnitsOf(stack[s]) \cap heap[cur] = {}
             /\ Top(stack[s]) \in Nat /\ Top(stack[s]) <= old
             /\ \A u \in UnitsOf(stack[s]) : u < Top(stack[s]) /\ u \in Nat
             /\ Top(stack[s]) - 1 \in UnitsOf(stack[s])
  <2>1. stack[s] \in Nat /\ sz[s] \in Nat
    BY SizesOf
  <2>2. Top(stack[s]) <= sz[s] /\ sz[s] <= old /\ UnitsOf(stack[s]) \cap heap[cur] = {}
    BY <1>4, <1>6 DEF Laid
  <2>3. Top(stack[s]) \in Nat /\ Top(stack[s]) - 1 \in UnitsOf(stack[s])
    BY <2>1, TopIs
  <2>4. \A u \in UnitsOf(stack[s]) : u < Top(stack[s]) /\ u \in Nat
    BY <2>1, UnitsBelow
  <2> QED BY <1>5, <2>1, <2>2, <2>3, <2>4
<1>7. CASE Grow(cur, n)
  <2>1. /\ size \in Nat /\ old < size /\ size <= MaxSize
        /\ pages' = [pages EXCEPT ![cur] = @ \cup (PagesBelow(size) \ PagesBelow(old))]
        /\ sz' = [sz EXCEPT ![cur] = size]
        /\ heap' = [heap EXCEPT ![cur] = @ \cup old..(size - 1)]
    <3>1. /\ n > 0 /\ sz[cur] + n <= MaxSize
          /\ pages' = [pages EXCEPT ![pgdir[cur]] =
                         @ \cup (PagesBelow(sz[cur] + n) \ PagesBelow(sz[cur]))]
          /\ sz' = [sz EXCEPT ![cur] = sz[cur] + n]
          /\ heap' = [heap EXCEPT ![pgdir[cur]] = @ \cup sz[cur]..((sz[cur] + n) - 1)]
      BY <1>7 DEF Grow
    <3>2. size \in Nat /\ old < size /\ size <= MaxSize
      BY <1>0, <1>4, <1>5, <3>1
    <3> QED BY <1>4, <1>5, <3>1, <3>2
  <2>2. PICK handed : handed = heap[cur] \cup old..(size - 1)
    OBVIOUS
  <2>3. pages' = [pages EXCEPT ![cur] = PagesBelow(size)]
    <3>1. PagesBelow(old) \subseteq PagesBelow(size)
      BY <1>5, <2>1, PagesGrow
    <3>2. pages[cur] \cup (PagesBelow(size) \ PagesBelow(old)) = PagesBelow(size)
      BY <1>5, <3>1
    <3> QED BY <2>1, <3>2
  <2>4. handed \in SUBSET (0..(MaxSize - 1)) /\ \A u \in handed : u < size
    BY <1>0, <1>5, <2>1, <2>2
  <2>5. \A s \in Slots : Laid(s) /\ mainthread[s] = cur =>
          UnitsOf(stack[s]) \cap handed = {} /\ Top(stack[s]) <= size
    <3> SUFFICES ASSUME NEW s \in Slots, Laid(s), mainthread[s] = cur
                 PROVE  UnitsOf(stack[s]) \cap handed = {} /\ Top(stack[s]) <= size
      OBVIOUS
    <3>1. /\ UnitsOf(stack[s]) \cap heap[cur] = {}
          /\ Top(stack[s]) \in Nat /\ Top(stack[s]) <= old
          /\ \A u \in UnitsOf(stack[s]) : u < Top(stack[s]) /\ u \in Nat
      BY <1>6
    <3>2. \A u \in UnitsOf(stack[s]) : u \notin old..(size - 1)
      BY <1>5, <2>1, <3>1
    <3> QED BY <1>5, <2>1, <2>2, <3>1, <3>2
  <2>6. heap' = [heap EXCEPT ![cur] = handed]
    BY <2>1, <2>2
  <2>7. size \in Nat /\ size <= MaxSize /\ sz' = [sz EXCEPT ![cur] = size]
    BY <2>1
  <2>8. Fits(cur, size, handed) /\ Resized(cur, size, handed)
    BY <1>2, <2>3, <2>4, <2>5, <2>6, <2>7 DEF Fits, Resized
  <2> QED BY <1>1, <1>2, <1>3, <2>8, ResizedMemory
<1>8. CASE Shrink(cur, n)
  <2>1. /\ size \in Nat /\ size < old /\ size..(old - 1) \subseteq heap[cur]
        /\ pages' = [pages EXCEPT ![cur] = @ \ (PagesBelow(old) \ PagesBelow(size))]
        /\ sz' = [sz EXCEPT ![cur] = size]
        /\ heap' = [heap EXCEPT ![cur] = {u \in @ : u < size}]
    <3>1. /\ n < 0 /\ sz[cur] + n > 0
          /\ sz[cur] + n .. (sz[cur] - 1) \subseteq heap[pgdir[cur]]
          /\ pages' = [pages EXCEPT ![pgdir[cur]] =
                         @ \ (PagesBelow(sz[cur]) \ PagesBelow(sz[cur] + n))]
          /\ sz' = [sz EXCEPT ![cur] = sz[cur] + n]
          /\ heap' = [heap EXCEPT ![pgdir[cur]] = {u \in @ : u < sz[cur] + n}]
      BY <1>8 DEF Shrink, AllMemoryRules
    <3>2. size \in Nat /\ size < old
      BY <1>0, <1>4, <1>5, <3>1
    <3> QED BY <1>4, <1>5, <3>1, <3>2
  <2>2. PICK handed : handed = {u \in heap[cur] : u < size}
    OBVIOUS
  <2>3. pages' = [pages EXCEPT ![cur] = PagesBelow(size)]
    <3>1. PagesBelow(size) \subseteq PagesBelow(old)
      BY <1>5, <2>1, PagesGrow
    <3>2. pages[cur] \ (PagesBelow(old) \ PagesBelow(size)) = PagesBelow(size)
      BY <1>5, <3>1
    <3> QED BY <2>1, <3>2
  <2>4. handed \in SUBSET (0..(MaxSize - 1)) /\ \A u \in handed : u < size
    BY <1>5, <2>2
  <2>5. \A s \in Slots : Laid(s) /\ mainthread[s] = cur =>
          UnitsOf(stack[s]) \cap handed = {} /\ Top(stack[s]) <= size
    <3> SUFFICES ASSUME NEW s \in Slots, Laid(s), mainthread[s] = cur
                 PROVE  UnitsOf(stack[s]) \cap handed = {} /\ Top(stack[s]) <= size
      OBVIOUS
    <3>1. /\ UnitsOf(stack[s]) \cap heap[cur] = {}
          /\ Top(stack[s]) \in Nat /\ Top(stack[s]) <= old
          /\ Top(stack[s]) - 1 \in UnitsOf(stack[s])
      BY <1>6
    <3>2. Top(stack[s]) - 1 \notin size..(old - 1)
      BY <2>1, <3>1
    <3>3. Top(stack[s]) <= size
      BY <1>5, <2>1, <3>1, <3>2
    <3> QED BY <2>2, <3>1, <3>3
  <2>6. heap' = [heap EXCEPT ![cur] = handed]
    BY <2>1, <2>2
  <2>7. size \in Nat /\ size <= MaxSize /\ sz' = [sz EXCEPT ![cur] = size]
    BY <1>0, <1>5, <2>1
  <2>8. Fits(cur, size, handed) /\ Resized(cur, size, handed)
    BY <1>2, <2>3, <2>4, <2>5, <2>6, <2>7 DEF Fits, Resized
  <2> QED BY <1>1, <1>2, <1>3, <2>8, ResizedMemory
<1> QED BY <1>2, <1>7, <1>8

LEMMA ReapWaits ==
  ASSUME NEW c \in Cpus, Reap(c) PROVE Waiting(c)
<1>1. Wait(c) \/ (\E s \in Slots : WaitPid(c, s)) \/ (\E n \in 0..MaxPid : ThreadJoin(c, n))
  BY DEF Reap
<1> QED BY <1>1 DEF Waiting

(* wait and, given pids of children only, waitpid reap main threads. *)
LEMMA ReapsMains ==
  ASSUME "pids" \in Rules, Kernel, WaitPidHasChild, NEW c \in Cpus,
         Wait(c) \/ (\E s \in Slots : WaitPid(c, s)),
         NEW t \in Slots, state[t] = "ZOMBIE", state'[t] = "UNUSED"
  PROVE  mainthread[t] = t
<1>0. cpu[c] # Nobody
  BY DEF Wait, WaitPid, Call, At
<1>1. cpu[c] \in Slots /\ state[cpu[c]] = "RUNNING" /\ t # cpu[c]
  BY <1>0, CurrentRuns
<1>s. ASSUME NEW where, SleepOn(c, cpu[c], where) PROVE FALSE
  <2>1. state'[t] = state[t]
    BY <1>0, <1>1, <1>s, SleepsOn
  <2> QED BY <2>1
<1>2. ASSUME NEW S, FailOrSleep(c, S, "wait", 0) PROVE FALSE
  <2>1. SleepOn(c, cpu[c], "wait") \/ state' = state
    BY <1>2 DEF FailOrSleep
  <2> QED BY <1>s, <2>1
<1>3. ASSUME NEW z \in Slots, state[z] = "ZOMBIE", mainthread[z] = z, NEW S,
             S = {z} \cup {s \in Slots : mainthread[s] = z /\ Live(s)}, Clear(S)
      PROVE  mainthread[t] = t
  <2>1. t \in S
    <3>1. CASE t \notin S
      <4>1. state'[t] = state[t]
        BY <1>3, <3>1, ClearIs
      <4> QED BY <4>1
    <3> QED BY <3>1
  <2>2. CASE t # z
    BY <1>3, <2>1, <2>2 DEF Kernel, ThreadsHaveMain
  <2> QED BY <1>3, <2>2
<1>4. CASE Wait(c)
  BY <1>2, <1>3, <1>4 DEF Wait, Zombies
<1>5. ASSUME NEW s \in Slots, WaitPid(c, s) PROVE mainthread[t] = t
  <2>1. mainthread[s] = s
    BY <1>1, <1>5 DEF WaitPid, At, WaitPidHasChild
  <2>2. CASE Zombies({s}) # {}
    <3>1. Clear({s})
      BY <1>5, <2>2 DEF WaitPid
    <3>2. t = s
      <4>1. CASE t # s
        <5>1. t \notin {s}
          BY <4>1
        <5>2. state'[t] = state[t]
          BY <3>1, <5>1, ClearIs
        <5> QED BY <5>2
      <4> QED BY <4>1
    <3> QED BY <2>1, <3>2
  <2>3. CASE Zombies({s}) = {}
    <3>1. SleepOn(c, cpu[c], "waitpid")
      BY <1>5, <2>3 DEF WaitPid
    <3> QED BY <1>s, <3>1
  <2> QED BY <2>2, <2>3
<1> QED BY <1>4, <1>5

(* A main thread that is reaped takes its page table with it, which is     *)
(* nobody else's.                                                          *)
LEMMA ReapMemory ==
  ASSUME "pids" \in Rules, Memory, WaitPidHasChild, Kernel', NEW c \in Cpus, Reap(c)
  PROVE  Memory'
<1>k. Kernel
  BY DEF Memory
<1>1. Calm
  <2>1. Waiting(c)
    BY ReapWaits
  <2> QED BY <1>k, <2>1, WaitingIsCalm
<1>2. PICK gone : gone = {s \in Slots : state[s] = "ZOMBIE" /\ state'[s] = "UNUSED"}
  OBVIOUS
<1>3. PICK H : H = {pgdir[s] : s \in gone}
  OBVIOUS
<1>r. \/ /\ Wait(c) \/ (\E s \in Slots : WaitPid(c, s))
         /\ pages' = On(pages, H, {}) /\ heap' = On(heap, H, {})
      \/ UNCHANGED <<pages, heap>>
  BY <1>2, <1>3, Zenon DEF Reap
<1>n. On(pages, {}, {}) = pages /\ On(heap, {}, {}) = heap
  BY DEF On, Memory, MemoryTypeOK
<1>g. PICK G : /\ pages' = On(pages, G, {}) /\ heap' = On(heap, G, {})
               /\ \/ G = {}
                  \/ G = H /\ (Wait(c) \/ (\E s \in Slots : WaitPid(c, s)))
  BY <1>r, <1>n
<1>4. pages' = On(pages, G, {}) /\ heap' = On(heap, G, {}) /\ UNCHANGED <<pgdir, sz, stack>>
  BY <1>g DEF Reap
<1>5. MemoryTypeOK'
  <2>1. MemoryTypeOK
    BY DEF Memory
  <2>2. pages' \in [Slots -> SUBSET PagesBelow(MaxSize)]
    BY <1>4, <2>1, OnType DEF MemoryTypeOK
  <2>3. heap' \in [Slots -> SUBSET (0..(MaxSize - 1))]
    BY <1>4, <2>1, OnType DEF MemoryTypeOK
  <2> QED BY <1>4, <2>1, <2>2, <2>3 DEF MemoryTypeOK
<1>6. ASSUME NEW s \in Slots, HasMemory(s)', mainthread[s] = s
      PROVE  pages'[s] = pages[s] /\ heap'[s] = heap[s]
  <2>1. state'[s] # "UNUSED"
    <3>1. ASSUME NEW t \in Slots, pc'[t] = "thread_parent", np'[t] = s
          PROVE  state'[s] = "EMBRYO"
      BY <3>1 DEF Kernel, Creators, Creating
    <3> QED BY <1>6, <3>1 DEF HasMemory, Started
  <2>2. ASSUME NEW t \in gone, Wait(c) \/ (\E p \in Slots : WaitPid(c, p))
        PROVE  pgdir[t] = t
    <3>1. t \in Slots /\ state[t] = "ZOMBIE" /\ state'[t] = "UNUSED"
      BY <1>2, <2>2
    <3>2. mainthread[t] = t
      BY <1>k, <2>2, <3>1, ReapsMains
    <3> QED BY <3>1, <3>2, RunningHas DEF Memory, Layout, Laid
  <2>3. s \notin G
    <3>1. CASE G = {}
      BY <3>1
    <3>2. CASE G = H /\ (Wait(c) \/ (\E p \in Slots : WaitPid(c, p)))
      <4>1. \A t \in gone : pgdir[t] = t /\ t # s
        BY <1>2, <2>1, <2>2, <3>2
      <4> QED BY <1>3, <3>2, <4>1
    <3> QED BY <1>g, <3>1, <3>2
  <2> QED BY <1>4, <2>3 DEF On, Memory, MemoryTypeOK
<1>7. Creation' /\ Layout'
  BY <1>1, <1>4, <1>6, CalmLayout
<1> QED BY <1>5, <1>7 DEF Memory

LEMMA OtherMemory ==
  ASSUME Memory, Kernel', NEW c \in Cpus, Other(c)
  PROVE  Memory'
<1>1. Kernel
  BY DEF Memory
<1>2. Calm
  BY <1>1, SchedulingIsCalm, SignallingIsCalm, AllocFailedIsCalm, ThreadStartIsCalm,
     ExitIsCalm DEF Other
<1> QED BY <1>2, CalmMemory DEF Other

-----------------------------------------------------------------------------
LEMMA MemoryStepIsStep == [MemoryNext]_all => [Next]_vars
<1>1. ASSUME NEW c \in Cpus, Reap(c) PROVE Next
  BY <1>1, ReapWaits DEF Next
<1>2. ASSUME NEW c \in Cpus, Allocate(c) \/ CopyUvm(c) \/ CreateThreadStack(c) \/ Other(c)
      PROVE  Next
  BY <1>2 DEF Next, Allocate, CopyUvm, CreateThreadStack, Other, Lifecycle
<1>3. ASSUME NEW c \in Cpus, NEW n \in Increments, Sbrk(c, n) PROVE UNCHANGED vars
  BY <1>3 DEF Sbrk
<1>4. CASE UNCHANGED all
  BY <1>4 DEF all
<1> QED BY <1>1, <1>2, <1>3, <1>4 DEF MemoryNext

LEMMA MemoryStep ==
  ASSUME "join" \in Rules, "signal" \in Rules, "pids" \in Rules,
         AllMemoryRules \subseteq MemoryRules, Memory, WaitPidHasChild, [MemoryNext]_all
  PROVE  Memory'
<1>1. Kernel'
  <2>1. [Next]_vars /\ Kernel
    BY MemoryStepIsStep DEF Memory
  <2> QED BY <2>1, KernelStep
<1>2. CASE UNCHANGED all
  <2>1. UNCHANGED memory /\ UNCHANGED <<state, mainthread, pc, np>>
    BY <1>2 DEF all, vars, table, locals
  <2>2. Calm
    BY <2>1 DEF Calm
  <2> QED BY <1>1, <2>1, <2>2, CalmMemory
<1>3. ASSUME NEW c \in Cpus,
             Allocate(c) \/ CopyUvm(c) \/ CreateThreadStack(c) \/ Reap(c) \/ Other(c)
      PROVE  Memory'
  BY <1>1, <1>3, AllocateMemory, CopyUvmMemory, CreateThreadStackMemory, ReapMemory,
     OtherMemory
<1>4. ASSUME NEW c \in Cpus, NEW n \in Increments, Sbrk(c, n) PROVE Memory'
  BY <1>1, <1>4, SbrkMemory
<1> QED BY <1>2, <1>3, <1>4 DEF MemoryNext

LEMMA MemoryStarts == Init /\ MemoryInit => Memory
<1> SUFFICES ASSUME Init, MemoryInit PROVE Memory
  OBVIOUS
<1>0. /\ MaxSize \in Nat /\ PageSize \in Nat \ {0} /\ PageSize <= MaxSize
      /\ InitProc \in Slots
  BY AddressSpaceAssumption, ProcTableAssumption
<1>1. Kernel
  BY KernelInit
<1>2. PagesBelow(PageSize) = {0} /\ PagesBelow(PageSize) \subseteq PagesBelow(MaxSize)
  <2>1. 1 * PageSize = PageSize
    BY <1>0
  <2>2. NextPage(PageSize) = 1
    BY <1>0, <2>1, NextPageOnly
  <2>3. PICK n : n = NextPage(PageSize) /\ PagesBelow(PageSize) = 0..(n - 1)
    <3>1. PageSize \in Nat
      BY <1>0
    <3>2. PagesBelow(PageSize) = 0..(NextPage(PageSize) - 1)
      BY <3>1, NextPageIs
    <3> QED BY <3>2
  <2>6. n = 1 /\ n - 1 = 0
    <3>1. n = 1
      BY <2>2, <2>3
    <3> QED BY <3>1
  <2>4. 0..0 = {0}
    OBVIOUS
  <2>5. PagesBelow(PageSize) \subseteq PagesBelow(MaxSize)
    BY <1>0, PagesGrow
  <2> QED BY <2>3, <2>4, <2>5, <2>6
<1>3. MemoryTypeOK
  <2>1. pgdir \in [Slots -> Slots \cup {Nobody}] /\ sz \in [Slots -> 0..MaxSize]
    BY <1>0 DEF MemoryInit
  <2>2. pages = [s \in Slots |-> IF s = InitProc THEN {0} ELSE {}]
    BY <1>0 DEF MemoryInit
  <2>3. /\ pages \in [Slots -> SUBSET PagesBelow(MaxSize)]
        /\ stack \in [Slots -> PagesBelow(MaxSize)]
        /\ heap \in [Slots -> SUBSET (0..(MaxSize - 1))]
    BY <1>2, <2>2 DEF MemoryInit
  <2> QED BY <2>1, <2>3 DEF MemoryTypeOK
<1>4. Creation
  BY DEF Init, Creation
<1>5. ASSUME NEW s \in Slots, HasMemory(s) PROVE s = InitProc
  BY <1>5 DEF Init, HasMemory, Started
<1>6. Laid(InitProc)
  <2>1. /\ mainthread[InitProc] = InitProc /\ pgdir[InitProc] = InitProc
        /\ stack[InitProc] = 0 /\ sz[InitProc] = PageSize /\ heap[InitProc] = {}
        /\ pages[InitProc] = {0}
    BY <1>0 DEF Init, MemoryInit
  <2>2. Top(0) = PageSize
    BY <1>0 DEF Top
  <2> QED BY <1>0, <1>2, <2>1, <2>2 DEF Laid
<1>7. Layout
  BY <1>5, <1>6 DEF Layout
<1> QED BY <1>1, <1>3, <1>4, <1>7 DEF Memory

LEMMA MemoryIsApart == Memory => MemoryApart
<1> SUFFICES ASSUME Memory PROVE MemoryApart
  OBVIOUS
<1>1. HaveMains /\ MemoryTypeOK
  BY MainsHave DEF Memory
<1>2. ASSUME NEW s \in Started
      PROVE  s \in Slots /\ HasMemory(s) /\ Laid(s) /\ mainthread[s] \in Slots
  BY DEF Memory, Layout, Laid, HasMemory, Started
<1>3. SizeIsTheEnd
  BY <1>2 DEF SizeIsTheEnd, Laid
<1>4. NoHoles
  <2> SUFFICES ASSUME NEW s \in Started
               PROVE  PagesBelow(sz[s]) \subseteq pages[pgdir[s]]
    BY DEF NoHoles
  <2>1. PICK m \in Slots : m = mainthread[s] /\ mainthread[m] = m /\ m \in Started
    BY <1>1, <1>2 DEF HaveMains
  <2>2. Laid(s) /\ Laid(m)
    BY <1>2, <2>1
  <2>3. pgdir[s] = m /\ sz[s] <= sz[m] /\ pages[m] = PagesBelow(sz[m])
    BY <2>1, <2>2 DEF Laid
  <2>4. PagesBelow(sz[s]) \subseteq PagesBelow(sz[m])
    BY <1>2, <2>3, SizesOf, PagesGrow
  <2> QED BY <2>3, <2>4
<1>5. StacksApart
  <2>1. ASSUME NEW s \in Started
        PROVE  /\ UnitsOf(stack[s]) \cap heap[pgdir[s]] = {}
               /\ \A u \in UnitsOf(stack[s]) : u < sz[s]
    <3>1. /\ UnitsOf(stack[s]) \cap heap[pgdir[s]] = {} /\ Top(stack[s]) <= sz[s]
      BY <1>2 DEF Laid
    <3>2. stack[s] \in Nat /\ sz[s] \in Nat
      BY <1>2, SizesOf
    <3>3. Top(stack[s]) \in Nat
      BY <3>2, TopIs
    <3>4. \A u \in UnitsOf(stack[s]) : u \in Nat /\ u < Top(stack[s])
      BY <3>2, UnitsBelow
    <3> QED BY <3>1, <3>2, <3>3, <3>4
  <2>2. ASSUME NEW s \in Started, NEW t \in Started \ {s}, pgdir[t] = pgdir[s]
        PROVE  stack[t] # stack[s]
    <3>1. mainthread[t] = mainthread[s]
      BY <1>2, <2>2 DEF Laid
    <3> QED BY <1>2, <2>2, <3>1 DEF Memory, Layout
  <2> QED BY <2>1, <2>2 DEF StacksApart
<1> QED BY <1>1, <1>3, <1>4, <1>5 DEF MemoryApart

(* Whatever the size of a page and of the memory, threads that share an    *)
(* address space stay out of each other's way in it, although growproc,    *)
(* thread_create and copyuvm go by the size of the thread that calls them: *)
(* when only main threads manage the memory, sbrk is given back what it    *)
(* handed out, and stacks are created at the end of a page with memory left*)
(* for them (proc.c, vm.c).  The other rules are those of ProcTable:       *)
(* without "pids" a waitpid for a thread frees the page table its main     *)
(* thread still uses (proc.c:781).                                         *)
THEOREM MemoryStaysApart ==
  ASSUME "join" \in Rules, "signal" \in Rules, "pids" \in Rules,
         AllMemoryRules \subseteq MemoryRules
  PROVE  MemorySpec => []MemoryApart
<1> DEFINE I == Memory /\ Waiters
<1>1. Init /\ MemoryInit => I
  BY MemoryStarts, WaitersInit
<1>2. I /\ [MemoryNext]_all => I'
  <2> SUFFICES ASSUME I, [MemoryNext]_all PROVE I'
    OBVIOUS
  <2>1. Kernel /\ WaitPidHasChild
    BY DEF Memory, Waiters
  <2>2. Memory'
    BY <2>1, MemoryStep
  <2>3. Waiters'
    BY <2>1, MemoryStepIsStep, WaitersStep
  <2> QED BY <2>2, <2>3
<1>3. I => MemoryApart
  BY MemoryIsApart
<1> QED
  BY <1>1, <1>2, <1>3, PTL DEF MemorySpec
=============================================================================
