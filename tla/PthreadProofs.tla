---------------------------- MODULE PthreadProofs ----------------------------
(***************************************************************************)
(* What TLAPS proves of the pthread lab's zemaphores (Zemaphore), of the   *)
(* programs that use them (ZemTests) and of its read-write locks (RWLock). *)
(***************************************************************************)
EXTENDS MCZemTests, RWLock, FiniteSetTheorems, TLAPS

-----------------------------------------------------------------------------
(* zemaphore.c implements counting semaphores, for any number of threads   *)
(* and semaphores, and so do the test programs' uses of it.                *)

(* The accounts of one semaphore: the threads that wait are the deficit,   *)
(* and every unit was used, is still there, or is on its way to a thread   *)
(* that was unblocked.                                                     *)
Balanced(s) ==
  /\ Cardinality(cond[s]) = Positive(-value[s])
  /\ downs[s] + Positive(value[s]) + Cardinality(woken[s]) = Units[s] + ups[s]

ZInv == ZTypeOK /\ (~excused => \A s \in Sems : Balanced(s))

LEMMA PositiveType == \A n \in Int : Positive(n) \in Nat
  BY DEF Positive

(* The sets of threads are finite, whatever is added or removed. *)
LEMMA QueuesFinite ==
  ASSUME ZTypeOK, NEW s \in Sems
  PROVE  /\ IsFiniteSet(cond[s]) /\ Cardinality(cond[s]) \in Nat
         /\ IsFiniteSet(woken[s]) /\ Cardinality(woken[s]) \in Nat
<1>1. cond[s] \subseteq Callers /\ woken[s] \subseteq Callers
  BY DEF ZTypeOK
<1> QED
  BY <1>1, FS_Subset, FS_CardinalityType, ZemaphoreAssumption DEF ZemaphoreAssumption

(* An action on one semaphore leaves the accounts of the others alone. *)
LEMMA OthersBalanced ==
  ASSUME ZTypeOK, NEW s \in Sems, NEW r \in Sems \ {s}, Balanced(r),
         cond'[r] = cond[r], value'[r] = value[r], downs'[r] = downs[r],
         woken'[r] = woken[r], ups'[r] = ups[r]
  PROVE  Balanced(r)'
  BY DEF Balanced

LEMMA ZInitInv == ZInit => ZInv
<1> SUFFICES ASSUME ZInit PROVE ZInv
  OBVIOUS
<1>0. value \in [Sems -> Int]
  BY ZemaphoreAssumption DEF ZInit, ZemaphoreAssumption
<1>1. ZTypeOK
  BY <1>0 DEF ZInit, ZTypeOK
<1>2. ASSUME NEW s \in Sems PROVE Balanced(s)
  <2>1. Cardinality(cond[s]) = 0 /\ Cardinality(woken[s]) = 0
    BY FS_EmptySet DEF ZInit
  <2>2. value[s] = Units[s] /\ Units[s] \in Nat /\ ups[s] = 0 /\ downs[s] = 0
    BY ZemaphoreAssumption DEF ZInit, ZemaphoreAssumption
  <2>3. Positive(-value[s]) = 0 /\ Positive(value[s]) = Units[s]
    BY <2>2 DEF Positive
  <2> QED
    BY <2>1, <2>2, <2>3 DEF Balanced
<1> QED
  BY <1>1, <1>2 DEF ZInv

LEMMA DownPassesInv ==
  ASSUME ZInv, NEW s \in Sems, DownPasses(s)
  PROVE  ZInv'
<1>1. ZTypeOK'
  BY DEF DownPasses, ZInv, ZTypeOK
<1>2. ASSUME ~excused PROVE Balanced(s)'
  <2>1. value[s] \in Int /\ downs[s] \in Nat /\ value[s] - 1 >= 0
        /\ value'[s] = value[s] - 1 /\ downs'[s] = downs[s] + 1
        /\ UNCHANGED <<cond, woken, ups>>
    BY DEF DownPasses, MustWait, ZInv, ZTypeOK
  <2> QED
    BY <1>2, <2>1, QueuesFinite, ZemaphoreAssumption
       DEF ZInv, Balanced, Positive, ZTypeOK, ZemaphoreAssumption
<1> QED
  BY <1>1, <1>2, OthersBalanced DEF DownPasses, ZInv, ZTypeOK

LEMMA DownWaitsInv ==
  ASSUME ZInv, NEW s \in Sems, NEW t \in Callers, ~InDown(s, t), DownWaits(s, t)
  PROVE  ZInv'
<1>0. /\ value[s] \in Int /\ value[s] - 1 < 0
      /\ value'[s] = value[s] - 1
      /\ cond'[s] = cond[s] \cup {t} /\ t \notin cond[s] \cup woken[s]
      /\ UNCHANGED <<woken, ups, downs, excused>>
  BY DEF DownWaits, MustWait, InDown, ZInv, ZTypeOK
<1>1. ZTypeOK'
  BY <1>0 DEF DownWaits, ZInv, ZTypeOK
<1>2. ASSUME ~excused PROVE Balanced(s)'
  <2>1. Cardinality(cond'[s]) = Cardinality(cond[s]) + 1
    BY <1>0, QueuesFinite, FS_AddElement DEF ZInv
  <2> QED
    BY <1>0, <1>2, <2>1, QueuesFinite DEF ZInv, Balanced, Positive
<1> QED
  BY <1>1, <1>2, OthersBalanced DEF DownWaits, ZInv, ZTypeOK

LEMMA DownReturnsInv ==
  ASSUME ZInv, NEW s \in Sems, NEW t \in Callers, DownReturns(s, t)
  PROVE  ZInv'
<1>0. /\ downs[s] \in Nat /\ downs'[s] = downs[s] + 1
      /\ woken'[s] = woken[s] \ {t} /\ t \in woken[s]
      /\ UNCHANGED <<value, cond, ups, excused>>
  BY DEF DownReturns, ZInv, ZTypeOK
<1>1. ZTypeOK'
  BY <1>0 DEF DownReturns, ZInv, ZTypeOK
<1>2. ASSUME ~excused PROVE Balanced(s)'
  <2>1. Cardinality(woken'[s]) = Cardinality(woken[s]) - 1
    BY <1>0, QueuesFinite, FS_RemoveElement DEF ZInv
  <2>2. value[s] \in Int /\ ups[s] \in Nat /\ Units[s] \in Nat
    BY ZemaphoreAssumption DEF ZInv, ZTypeOK, ZemaphoreAssumption
  <2> QED
    BY <1>0, <1>2, <2>1, <2>2, QueuesFinite, PositiveType DEF ZInv, Balanced
<1> QED
  BY <1>1, <1>2, OthersBalanced DEF DownReturns, ZInv, ZTypeOK

LEMMA ZemUpInv ==
  ASSUME ZInv, NEW s \in Sems, zem_up(s)
  PROVE  ZInv'
<1>1. PICK W \in OneWaiter(s) : /\ cond' = [cond EXCEPT ![s] = @ \ W]
                                /\ woken' = [woken EXCEPT ![s] = @ \cup W]
  BY DEF zem_up, Dequeued
<1>2. /\ value[s] \in Int /\ ups[s] \in Nat
      /\ value'[s] = value[s] + 1 /\ ups'[s] = ups[s] + 1
      /\ cond'[s] = cond[s] \ W /\ woken'[s] = woken[s] \cup W
      /\ UNCHANGED <<downs, excused>>
  BY <1>1 DEF zem_up, ZInv, ZTypeOK
<1>3. W \subseteq cond[s]
  BY DEF OneWaiter
<1>4. ZTypeOK'
  BY <1>1, <1>2, <1>3 DEF zem_up, ZInv, ZTypeOK
<1>5. ASSUME ~excused PROVE Balanced(s)'
  <2>0. downs[s] \in Nat /\ Units[s] \in Nat
    BY ZemaphoreAssumption DEF ZInv, ZTypeOK, ZemaphoreAssumption
  <2>1. CASE cond[s] = {}
    <3>0. Cardinality(cond[s]) = 0
      BY <2>1, FS_EmptySet
    <3>1. value[s] >= 0
      BY <1>2, <1>5, <3>0 DEF ZInv, Balanced, Positive
    <3>2. cond'[s] = cond[s] /\ woken'[s] = woken[s]
      BY <1>2, <2>1 DEF OneWaiter
    <3>3. /\ Positive(value'[s]) = Positive(value[s]) + 1
          /\ Positive(-value'[s]) = 0 /\ Positive(value[s]) \in Nat
      BY <1>2, <3>1 DEF Positive
    <3>4. Balanced(s) /\ Cardinality(woken[s]) \in Nat
      BY <1>5, QueuesFinite DEF ZInv
    <3>5. Cardinality(cond'[s]) = Positive(-value'[s])
      BY <3>0, <3>2, <3>3
    <3>6. downs'[s] + Positive(value'[s]) + Cardinality(woken'[s]) = Units[s] + ups'[s]
      <4>1. downs[s] + Positive(value[s]) + Cardinality(woken[s]) = Units[s] + ups[s]
        BY <3>4 DEF Balanced
      <4>2. downs'[s] = downs[s] /\ Cardinality(woken'[s]) = Cardinality(woken[s])
        BY <1>2, <3>2
      <4> QED
        BY <1>2, <2>0, <3>3, <3>4, <4>1, <4>2
    <3> QED
      BY <3>5, <3>6 DEF Balanced
  <2>2. CASE cond[s] # {}
    <3>1. PICK t \in cond[s] : W = {t}
      BY <2>2 DEF OneWaiter
    <3>2. t \notin woken[s]
      BY DEF ZInv, ZTypeOK
    <3>3. Cardinality(cond'[s]) = Cardinality(cond[s]) - 1
      <4>1. IsFiniteSet(cond[s]) /\ cond'[s] = cond[s] \ {t}
        BY <1>2, <3>1, QueuesFinite DEF ZInv
      <4> QED
        BY <3>1, <4>1, FS_RemoveElement
    <3>4. Cardinality(woken'[s]) = Cardinality(woken[s]) + 1
      <4>1. IsFiniteSet(woken[s]) /\ woken'[s] = woken[s] \cup {t}
        BY <1>2, <3>1, QueuesFinite DEF ZInv
      <4> QED
        BY <3>2, <4>1, FS_AddElement
    <3>5. Cardinality(cond[s]) # 0
      BY <2>2, QueuesFinite, FS_EmptySet DEF ZInv
    <3> QED
      BY <1>2, <1>5, <2>0, <3>3, <3>4, <3>5, QueuesFinite
         DEF ZInv, Balanced, Positive
  <2> QED
    BY <2>1, <2>2
<1> QED
  BY <1>1, <1>4, <1>5, OthersBalanced DEF zem_up, ZInv, ZTypeOK

LEMMA ZSpuriousInv ==
  ASSUME ZInv, NEW s \in Sems, NEW t \in Callers, ZSpurious(s, t)
  PROVE  ZInv'
  BY DEF ZSpurious, ZInv, ZTypeOK

(* An action of the library; a thread that is in zem_down does not call it.*)
LEMMA ZNextInv == ZInv /\ [ZNext]_zvars => ZInv'
<1> SUFFICES ASSUME ZInv, [ZNext]_zvars PROVE ZInv'
  OBVIOUS
<1>1. CASE UNCHANGED zvars
  BY <1>1 DEF zvars, ZInv, ZTypeOK, Balanced
<1>2. ASSUME NEW s \in Sems, zem_up(s) PROVE ZInv'
  BY <1>2, ZemUpInv
<1>3. ASSUME NEW s \in Sems, DownPasses(s) PROVE ZInv'
  BY <1>3, DownPassesInv
<1>4. ASSUME NEW s \in Sems, NEW t \in Callers, ~InDown(s, t), DownWaits(s, t)
      PROVE  ZInv'
  BY <1>4, DownWaitsInv
<1>5. ASSUME NEW s \in Sems, NEW t \in Callers, DownReturns(s, t) PROVE ZInv'
  BY <1>5, DownReturnsInv
<1>6. ASSUME NEW s \in Sems, NEW t \in Callers, ZSpurious(s, t) PROVE ZInv'
  BY <1>6, ZSpuriousInv
<1> QED
  BY <1>1, <1>2, <1>3, <1>4, <1>5, <1>6 DEF ZNext

THEOREM ZBalance == ZSpec => []ZInv
  BY ZInitInv, ZNextInv, PTL DEF ZSpec

-----------------------------------------------------------------------------
(* Refinement *)

LEMMA PassHasUnit ==
  ASSUME ZInv, NEW s \in Sems, DownPasses(s)
  PROVE  S!Down(s)
<1>1. value[s] \in Int /\ value[s] - 1 >= 0
  BY DEF DownPasses, MustWait, ZInv, ZTypeOK
<1>2. ups[s] \in Nat /\ downs[s] \in Nat /\ Units[s] \in Nat
  BY ZemaphoreAssumption DEF ZInv, ZTypeOK, ZemaphoreAssumption
<1>3. ~excused => downs[s] < Units[s] + ups[s]
  BY <1>1, <1>2, QueuesFinite DEF ZInv, Balanced, Positive
<1> QED
  BY <1>3 DEF DownPasses, S!Down, ZInv, ZTypeOK

LEMMA ReturnHasUnit ==
  ASSUME ZInv, NEW s \in Sems, NEW t \in Callers, DownReturns(s, t)
  PROVE  S!Down(s)
<1>1. Cardinality(woken[s]) # 0
  BY QueuesFinite, FS_EmptySet DEF DownReturns, ZInv
<1>2. value[s] \in Int /\ ups[s] \in Nat /\ downs[s] \in Nat /\ Units[s] \in Nat
  BY ZemaphoreAssumption DEF ZInv, ZTypeOK, ZemaphoreAssumption
<1>3. ~excused => downs[s] < Units[s] + ups[s]
  BY <1>1, <1>2, QueuesFinite, PositiveType DEF ZInv, Balanced
<1> QED
  BY <1>3 DEF DownReturns, S!Down, ZInv, ZTypeOK

LEMMA StepRefines ==
  ZInv /\ [ZNext]_zvars => [S!Next]_<<ups, downs, excused>>
<1> SUFFICES ASSUME ZInv, [ZNext]_zvars
             PROVE  [S!Next]_<<ups, downs, excused>>
  OBVIOUS
<1>1. CASE UNCHANGED zvars
  BY <1>1 DEF zvars
<1>2. ASSUME NEW s \in Sems, zem_up(s) PROVE S!Next
  BY <1>2 DEF zem_up, S!Up, S!Next
<1>3. ASSUME NEW s \in Sems, DownPasses(s) PROVE S!Next
  BY <1>3, PassHasUnit DEF S!Next
<1>4. ASSUME NEW s \in Sems, NEW t \in Callers, DownWaits(s, t)
      PROVE  UNCHANGED <<ups, downs, excused>>
  BY <1>4 DEF DownWaits
<1>5. ASSUME NEW s \in Sems, NEW t \in Callers, DownReturns(s, t) PROVE S!Next
  BY <1>5, ReturnHasUnit DEF S!Next
<1>6. ASSUME NEW s \in Sems, NEW t \in Callers, ZSpurious(s, t) PROVE S!Next
  BY <1>6 DEF ZSpurious, S!Excuse, S!Next
<1> QED
  BY <1>1, <1>2, <1>3, <1>4, <1>5, <1>6 DEF ZNext

(* zemaphore.c implements the abstract semaphores.                         *)
THEOREM ZRefines == ZSpec => ZAbstract
<1>1. ZInit => S!Init
  BY DEF ZInit, S!Init
<1> QED
  BY <1>1, StepRefines, ZBalance, PTL DEF ZSpec, ZAbstract, S!Spec

(* A negative value counts the threads that wait.                          *)
THEOREM CountsWaiters == ZSpec => []ZInvariants
<1>1. ZInv => ZInvariants
  BY DEF ZInv, WaitersCounted, Balanced, ZInvariants
<1> QED
  BY <1>1, ZBalance, PTL

-----------------------------------------------------------------------------
(* The test programs use the library as ZSpec says. *)

TestType ==
  /\ test \in DOMAIN Programs
  /\ created \subseteq Callers
  /\ ip \in [Callers -> Nat \ {0}]

(* The call a thread is about to make is one of its program.               *)
LEMMA CallIsOp ==
  ASSUME TestType, NEW t \in Callers, NEW o, Calls(t, o)
  PROVE  /\ Op(t) \in Ops
         /\ o \in {"zem_down", "zem_up"} => Op(t).s \in Sems
         /\ o \in {"pthread_create", "pthread_join"} => Op(t).t \in Callers
<1>1. Program[t] \in Seq(Ops)
  BY ZemTestsAssumption DEF ZemTestsAssumption, TestType, Program
<1>2. ip[t] \in 1..Len(Program[t])
  BY <1>1 DEF Calls, Finished, TestType
<1>3. Op(t) \in Ops /\ Op(t).op = o
  BY <1>1, <1>2 DEF Op, Calls
<1> QED
  BY <1>3 DEF Ops

LEMMA TestStep ==
  ASSUME TestType, [TestNext]_tvars
  PROVE  TestType' /\ [ZNext]_zvars
<1>1. CASE UNCHANGED tvars
  BY <1>1 DEF tvars, zvars, TestType
<1>2. ASSUME NEW t \in Callers, Down(t) PROVE TestType' /\ ZNext
  <2>1. PICK s \in Sems : s = Op(t).s
    BY <1>2, CallIsOp DEF Down
  <2>2. ~InDown(s, t)
    BY <1>2, <2>1 DEF Down, Calls
  <2>3. DownPasses(s) \/ DownWaits(s, t)
    BY <1>2, <2>1 DEF Down
  <2>4. ZNext
    BY <2>2, <2>3 DEF ZNext
  <2> QED
    BY <1>2, <2>4 DEF Down, Advance, TestType
<1>3. ASSUME NEW t \in Callers, Returns(t) PROVE TestType' /\ ZNext
  BY <1>3 DEF Returns, ZNext, Advance, TestType
<1>4. ASSUME NEW t \in Callers, Up(t) PROVE TestType' /\ ZNext
  <2>1. PICK s \in Sems : s = Op(t).s
    BY <1>4, CallIsOp DEF Up
  <2> QED
    BY <1>4, <2>1 DEF Up, ZNext, Advance, TestType
<1>5. ASSUME NEW t \in Callers, Create(t) PROVE TestType' /\ UNCHANGED zvars
  <2>1. Op(t).t \in Callers
    BY <1>5, CallIsOp DEF Create
  <2> QED
    BY <1>5, <2>1 DEF Create, Advance, TestType
<1>6. ASSUME NEW t \in Callers, Join(t) PROVE TestType' /\ UNCHANGED zvars
  BY <1>6 DEF Join, Advance, TestType
<1>7. ASSUME NEW t \in Callers, Wakes(t) PROVE TestType' /\ ZNext
  BY <1>7 DEF Wakes, ZNext, TestType
<1> QED
  BY <1>1, <1>2, <1>3, <1>4, <1>5, <1>6, <1>7 DEF TestNext, Step

THEOREM TestsUseLibrary == TestSpec => ZSpec
<1>1. TestInit => TestType /\ ZInit
  BY ZemTestsAssumption DEF TestInit, TestType, ZemTestsAssumption
<1> QED
  BY <1>1, TestStep, PTL DEF TestSpec, ZSpec

(* In every test program the semaphores are what they promise: nobody is   *)
(* let through without a unit ...                                          *)
THEOREM TestsRefine == TestSpec => ZAbstract
  BY TestsUseLibrary, ZRefines

(* ... and the waiting threads are the deficit.                            *)
THEOREM TestsCountWaiters == TestSpec => []ZInvariants
  BY TestsUseLibrary, CountsWaiters, PTL

-----------------------------------------------------------------------------
(* test-toggle.c and test-zem.c print their lines in the order they        *)
(* announce: what a thread has printed is bound by the units its semaphore *)
(* has had, and those by what the other threads have printed.              *)

(* The instance: any number of threads and rounds. *)
TheTests == /\ Sems = TestSems /\ Callers = TestThreads /\ Units = Zero
            /\ Main = TestMain /\ Programs = Tests

LEMMA Numbers ==
  ASSUME TheTests
  PROVE  /\ NUM_THREADS \in Nat /\ NUM_THREADS >= 2 /\ NUM_ITER \in Nat
         /\ TestMain = NUM_THREADS /\ TestMain \in Callers /\ TestMain \notin Sems
         /\ 0 \in Sems /\ 1 \in Sems /\ NUM_THREADS - 1 \in Sems
         /\ \A t \in Callers : t \in Nat /\ (t = TestMain \/ t \in Sems)
         /\ \A s \in Sems : s \in Callers /\ s \in Nat /\ s <= NUM_THREADS - 1
                            /\ Units[s] = 0 /\ (s > 0 => s - 1 \in Sems)
  BY NumAssumption DEF NumAssumption, TheTests, TestSems, TestThreads, TestMain, Zero

(* The thread that comes next in the circle. *)
LEMMA Circle ==
  ASSUME TheTests, NEW i \in Sems
  PROVE  (i + 1) % NUM_THREADS = IF i = NUM_THREADS - 1 THEN 0 ELSE i + 1
<1>0. NUM_THREADS \in Nat /\ NUM_THREADS >= 2 /\ i \in Nat /\ i <= NUM_THREADS - 1
  BY Numbers
<1>1. \A n \in Nat, x \in Nat : x < n => x % n = x
  BY SMT
<1>2. \A n \in Nat \ {0} : n % n = 0
  BY SMT
<1> QED BY <1>0, <1>1, <1>2

LEMMA ProgramOf ==
  ASSUME TheTests, TestType
  PROVE  /\ test \in {"toggle", "zem"}
         /\ test = "toggle" => Program = Toggle
         /\ test = "zem" => Program = Zem
  BY DEF TheTests, Tests, Program, TestType

(* The programs of test-toggle.c. *)
LEMMA TogglePrograms ==
  ASSUME TheTests, TestType, test = "toggle"
  PROVE  /\ \A i \in Sems :
              /\ Len(Program[i]) = 2 * NUM_ITER
              /\ \A k \in 1..(2 * NUM_ITER) :
                   Program[i][k] = IF k % 2 = 1 THEN D(i) ELSE U((i + 1) % NUM_THREADS)
         /\ Program[TestMain][1] = U(0)
         /\ \A k \in 1..Len(Program[TestMain]) :
              k > 1 => Program[TestMain][k].op \in {"pthread_create", "pthread_join"}
<1>1. Program = Toggle
  BY ProgramOf
<1>2. ASSUME NEW i \in Sems
      PROVE  /\ Len(Program[i]) = 2 * NUM_ITER
             /\ \A k \in 1..(2 * NUM_ITER) :
                  Program[i][k] = IF k % 2 = 1 THEN D(i) ELSE U((i + 1) % NUM_THREADS)
  <2>1. Program[i] = justprint(i)
    BY <1>1, Numbers DEF Toggle, TheTests
  <2>2. 2 * NUM_ITER \in Nat
    BY Numbers
  <2> QED BY <2>1, <2>2 DEF justprint
<1>3. Program[TestMain] = ToggleMain
  BY <1>1, Numbers DEF Toggle, TheTests
<1>4. Len(ToggleMain) = 2 * NUM_THREADS + 1
  BY Numbers DEF ToggleMain
<1>5. ToggleMain[1] = U(0)
  BY Numbers DEF ToggleMain
<1>6. ASSUME NEW k \in 1..(2 * NUM_THREADS + 1), k > 1
      PROVE  ToggleMain[k].op \in {"pthread_create", "pthread_join"}
  <2>1. ToggleMain[k] = New(k - 2) \/ ToggleMain[k] = J(k - 2 - NUM_THREADS)
    BY <1>6, Numbers DEF ToggleMain
  <2> QED BY <2>1 DEF New, J
<1> QED BY <1>2, <1>3, <1>4, <1>5, <1>6

(* The programs of test-zem.c. *)
LEMMA ZemPrograms ==
  ASSUME TheTests, TestType, test = "zem"
  PROVE  /\ \A i \in {0, 1} : Len(Program[i]) = 2 /\ Program[i][1] = D(0) /\ Program[i][2] = U(1)
         /\ \A i \in Sems \ {0, 1} : Len(Program[i]) = 0
         /\ Len(Program[TestMain]) = 8
         /\ \A k \in {1, 2, 7, 8} :
              Program[TestMain][k].op \in {"pthread_create", "pthread_join"}
         /\ \A k \in {3, 5} : Program[TestMain][k] = U(0)
         /\ \A k \in {4, 6} : Program[TestMain][k] = D(1)
<1>1. Program = Zem
  BY ProgramOf
<1>2. /\ \A i \in {0, 1} : Program[i] = <<D(0), U(1)>>
      /\ \A i \in Sems \ {0, 1} : Program[i] = <<>>
      /\ Program[TestMain] = <<New(0), New(1), U(0), D(1), U(0), D(1), J(0), J(1)>>
  BY <1>1, Numbers DEF Zem, TheTests
<1>3. ASSUME NEW i \in {0, 1}
      PROVE  Len(Program[i]) = 2 /\ Program[i][1] = D(0) /\ Program[i][2] = U(1)
  <2>1. Program[i] = <<D(0), U(1)>>
    BY <1>2
  <2> QED BY <2>1
<1>4. \A i \in Sems \ {0, 1} : Len(Program[i]) = 0
  BY <1>2
<1>5. /\ Len(Program[TestMain]) = 8
      /\ Program[TestMain][1] = New(0) /\ Program[TestMain][2] = New(1)
      /\ Program[TestMain][3] = U(0) /\ Program[TestMain][5] = U(0)
      /\ Program[TestMain][4] = D(1) /\ Program[TestMain][6] = D(1)
      /\ Program[TestMain][7] = J(0) /\ Program[TestMain][8] = J(1)
  BY <1>2
<1>6. \A k \in {0, 1} : New(k).op = "pthread_create" /\ J(k).op = "pthread_join"
  BY DEF New, J
<1> QED BY <1>3, <1>4, <1>5, <1>6

-----------------------------------------------------------------------------
(* A thread inside zem_down is at a call of its program that says so.      *)
InCalls ==
  \A t \in Callers, s \in Sems :
    InDown(s, t) => ip[t] <= Len(Program[t]) /\ Op(t) = D(s)

(* A step of a program: a thread makes the call it is at, or nothing that  *)
(* the accounts speak of changes.                                          *)
Makes(t) ==
  /\ ip[t] <= Len(Program[t])
  /\ ip' = [ip EXCEPT ![t] = @ + 1]
  /\ CASE Op(t).op = "zem_down" ->
            \E s \in Sems : /\ Op(t) = D(s) /\ downs' = [downs EXCEPT ![s] = @ + 1]
                            /\ UNCHANGED ups
       [] Op(t).op = "zem_up" ->
            \E s \in Sems : /\ Op(t) = U(s) /\ ups' = [ups EXCEPT ![s] = @ + 1]
                            /\ UNCHANGED downs
       [] OTHER -> UNCHANGED <<ups, downs>>

LEMMA CallMakes ==
  ASSUME TestType, NEW t \in Callers, NEW o, Calls(t, o)
  PROVE  /\ ip[t] <= Len(Program[t]) /\ Op(t).op = o
         /\ \A s \in Sems : ~InDown(s, t)
         /\ o = "zem_down" => \E s \in Sems : Op(t) = D(s)
         /\ o = "zem_up" => \E s \in Sems : Op(t) = U(s)
<1>1. Program[t] \in Seq(Ops)
  BY ZemTestsAssumption DEF ZemTestsAssumption, TestType, Program
<1>2. ip[t] <= Len(Program[t]) /\ Op(t).op = o /\ \A s \in Sems : ~InDown(s, t)
  BY <1>1 DEF Calls, Finished, TestType
<1>3. Op(t) \in Ops
  BY CallIsOp
<1>4. o \in {"zem_down", "zem_up"} => \E s \in Sems : Op(t) = [op |-> o, s |-> s]
  BY <1>2, <1>3 DEF Ops
<1> QED BY <1>2, <1>4 DEF D, U

LEMMA Effects ==
  ASSUME TestType, ZInv, InCalls, [TestNext]_tvars
  PROVE  /\ test' = test
         /\ (\E t \in Callers : Makes(t)) \/ UNCHANGED <<ip, ups, downs>>
         /\ InCalls'
<1>1. CASE UNCHANGED tvars
  BY <1>1 DEF tvars, zvars, InCalls, InDown, Op, Program
<1>2. ASSUME NEW t \in Callers, test' = test, ip' = [ip EXCEPT ![t] = @ + 1],
             NEW r \in Sems,
             \A s \in Sems : InDown(s, t)' => InDown(s, t) /\ s # r,
             \A s \in Sems : InDown(s, t) => s = r,
             \A u \in Callers \ {t}, s \in Sems : InDown(s, u)' => InDown(s, u)
      PROVE  InCalls'
  <2> SUFFICES ASSUME NEW u \in Callers, NEW s \in Sems, InDown(s, u)'
               PROVE  ip'[u] <= Len(Program'[u]) /\ Op(u)' = D(s)
    BY DEF InCalls
  <2>1. u # t /\ InDown(s, u)
    BY <1>2
  <2>2. ip'[u] = ip[u] /\ Program' = Program
    BY <1>2, <2>1 DEF TestType, Program
  <2> QED BY <2>1, <2>2 DEF InCalls, Op
<1>3. ASSUME NEW t \in Callers, Down(t)
      PROVE  /\ test' = test /\ InCalls'
             /\ Makes(t) \/ UNCHANGED <<ip, ups, downs>>
  <2>1. PICK s \in Sems : Op(t) = D(s) /\ s = Op(t).s
    BY <1>3, CallMakes DEF Down, D
  <2>2. /\ ip[t] <= Len(Program[t]) /\ Op(t).op = "zem_down"
        /\ \A r \in Sems : ~InDown(r, t)
    BY <1>3, CallMakes DEF Down
  <2>3. CASE DownPasses(s) /\ Advance(t)
    <3>1. UNCHANGED <<cond, woken, ups>> /\ downs' = [downs EXCEPT ![s] = @ + 1]
      BY <2>3 DEF DownPasses
    <3>2. \A u \in Callers, r \in Sems : InDown(r, u)' <=> InDown(r, u)
      BY <3>1 DEF InDown
    <3>3. InCalls'
      BY <1>2, <1>3, <2>1, <2>2, <2>3, <3>2 DEF Down, Advance
    <3> QED BY <1>3, <2>1, <2>2, <2>3, <3>1, <3>3 DEF Down, Advance, Makes
  <2>4. CASE DownWaits(s, t) /\ UNCHANGED ip
    <3>1. \A u \in Callers, r \in Sems : InDown(r, u)' => InDown(r, u) \/ (r = s /\ u = t)
      BY <2>4 DEF DownWaits, InDown, ZInv, ZTypeOK
    <3>2. Program' = Program
      BY <1>3 DEF Down, Program
    <3>3. InCalls'
      BY <2>1, <2>2, <2>4, <3>1, <3>2 DEF InCalls, Op
    <3> QED BY <1>3, <2>4, <3>3 DEF Down, DownWaits
  <2> QED BY <1>3, <2>1, <2>3, <2>4 DEF Down
<1>4. ASSUME NEW t \in Callers, Returns(t) PROVE Makes(t) /\ test' = test /\ InCalls'
  <2>1. PICK s \in Sems : DownReturns(s, t)
    BY <1>4 DEF Returns
  <2>2. InDown(s, t) /\ ip[t] <= Len(Program[t]) /\ Op(t) = D(s)
    BY <2>1 DEF DownReturns, InDown, InCalls
  <2>3. /\ downs' = [downs EXCEPT ![s] = @ + 1] /\ UNCHANGED ups
        /\ ip' = [ip EXCEPT ![t] = @ + 1] /\ test' = test
    BY <1>4, <2>1 DEF DownReturns, Returns, Advance
  <2>4. \A r \in Sems : InDown(r, t) => r = s
    BY <2>2 DEF InCalls, D
  <2>5. /\ \A u \in Callers, r \in Sems : InDown(r, u)' => InDown(r, u)
        /\ ~InDown(s, t)'
    BY <2>1 DEF DownReturns, InDown, ZInv, ZTypeOK
  <2>6. InCalls'
    BY <1>2, <2>3, <2>4, <2>5
  <2>7. Op(t).op = "zem_down"
    BY <2>2 DEF D
  <2> QED BY <2>2, <2>3, <2>6, <2>7 DEF Makes
<1>5. ASSUME NEW t \in Callers, Up(t) PROVE Makes(t) /\ test' = test /\ InCalls'
  <2>1. PICK s \in Sems : Op(t) = U(s) /\ s = Op(t).s
    BY <1>5, CallMakes DEF Up, U
  <2>2. /\ ip[t] <= Len(Program[t]) /\ Op(t).op = "zem_up"
        /\ \A r \in Sems : ~InDown(r, t)
    BY <1>5, CallMakes DEF Up
  <2>3. /\ ups' = [ups EXCEPT ![s] = @ + 1] /\ UNCHANGED downs
        /\ ip' = [ip EXCEPT ![t] = @ + 1] /\ test' = test
    BY <1>5, <2>1 DEF Up, zem_up, Advance
  <2>4. \A u \in Callers, r \in Sems : InDown(r, u)' => InDown(r, u)
    <3>1. PICK W \in OneWaiter(s) : /\ cond' = [cond EXCEPT ![s] = @ \ W]
                                    /\ woken' = [woken EXCEPT ![s] = @ \cup W]
      BY <1>5, <2>1 DEF Up, zem_up, Dequeued
    <3>2. W \subseteq cond[s]
      BY DEF OneWaiter
    <3> QED BY <3>1, <3>2 DEF InDown, ZInv, ZTypeOK
  <2>5. InCalls'
    BY <1>2, <2>2, <2>3, <2>4
  <2> QED BY <2>1, <2>2, <2>3, <2>5 DEF Makes
<1>6. ASSUME NEW t \in Callers, Create(t) \/ Join(t)
      PROVE  Makes(t) /\ test' = test /\ InCalls'
  <2>1. /\ ip[t] <= Len(Program[t]) /\ Op(t).op \in {"pthread_create", "pthread_join"}
        /\ \A r \in Sems : ~InDown(r, t)
    BY <1>6, CallMakes DEF Create, Join
  <2>2. UNCHANGED zvars /\ ip' = [ip EXCEPT ![t] = @ + 1] /\ test' = test
    BY <1>6 DEF Create, Join, Advance
  <2>3. \A u \in Callers, r \in Sems : InDown(r, u)' <=> InDown(r, u)
    BY <2>2 DEF InDown, zvars
  <2>4. InCalls'
    <3>1. Program' = Program
      BY <2>2 DEF Program
    <3>2. ASSUME NEW u \in Callers, NEW r \in Sems, InDown(r, u)'
          PROVE  ip'[u] <= Len(Program'[u]) /\ Op(u)' = D(r)
      <4>1. u # t /\ InDown(r, u)
        BY <2>1, <2>3, <3>2
      <4>2. ip'[u] = ip[u]
        BY <2>2, <4>1 DEF TestType
      <4> QED BY <3>1, <4>1, <4>2 DEF InCalls, Op
    <3> QED BY <3>2 DEF InCalls
  <2> QED BY <2>1, <2>2, <2>4 DEF Makes, zvars
<1>7. ASSUME NEW t \in Callers, Wakes(t)
      PROVE  UNCHANGED <<ip, ups, downs>> /\ test' = test /\ InCalls'
  <2>1. PICK s \in Sems : ZSpurious(s, t)
    BY <1>7 DEF Wakes
  <2>2. UNCHANGED <<ip, ups, downs, test>> /\ Program' = Program
    BY <1>7, <2>1 DEF Wakes, ZSpurious, Program
  <2>3. \A u \in Callers, r \in Sems : InDown(r, u)' => InDown(r, u)
    BY <2>1 DEF ZSpurious, InDown, ZInv, ZTypeOK
  <2>4. InCalls'
    BY <2>2, <2>3 DEF InCalls, Op
  <2> QED BY <2>2, <2>4
<1> QED
  BY <1>1, <1>3, <1>4, <1>5, <1>6, <1>7 DEF TestNext, Step, tvars, zvars

-----------------------------------------------------------------------------
LEMMA MakesCall ==
  ASSUME NEW t, Makes(t)
  PROVE  /\ \A s \in Sems : Op(t) = D(s) =>
              downs' = [downs EXCEPT ![s] = @ + 1] /\ UNCHANGED ups /\ Op(t).op = "zem_down"
         /\ \A s \in Sems : Op(t) = U(s) =>
              ups' = [ups EXCEPT ![s] = @ + 1] /\ UNCHANGED downs /\ Op(t).op = "zem_up"
         /\ Op(t).op \in {"pthread_create", "pthread_join"} => UNCHANGED <<ups, downs>>
<1>1. \A s : D(s).op = "zem_down" /\ D(s).s = s /\ U(s).op = "zem_up" /\ U(s).s = s
  BY DEF D, U
<1>2. ASSUME NEW s \in Sems, Op(t) = D(s)
      PROVE  downs' = [downs EXCEPT ![s] = @ + 1] /\ UNCHANGED ups /\ Op(t).op = "zem_down"
  <2>1. Op(t).op = "zem_down" /\ \A r : Op(t) = D(r) => r = s
    BY <1>1, <1>2
  <2> QED BY <2>1 DEF Makes
<1>3. ASSUME NEW s \in Sems, Op(t) = U(s)
      PROVE  ups' = [ups EXCEPT ![s] = @ + 1] /\ UNCHANGED downs /\ Op(t).op = "zem_up"
  <2>1. Op(t).op = "zem_up" /\ \A r : Op(t) = U(r) => r = s
    BY <1>1, <1>3
  <2> QED BY <2>1 DEF Makes
<1>4. ASSUME Op(t).op \in {"pthread_create", "pthread_join"} PROVE UNCHANGED <<ups, downs>>
  BY <1>4 DEF Makes
<1> QED BY <1>2, <1>3, <1>4

LEMMA Halves ==
  ASSUME NEW n \in Nat \ {0}
  PROVE  /\ n \div 2 \in Nat /\ (n - 1) \div 2 \in Nat
         /\ (n - 1) \div 2 <= n \div 2
         /\ n % 2 = 1 => (n + 1) \div 2 = (n \div 2) + 1 /\ n \div 2 = (n - 1) \div 2
         /\ n % 2 # 1 => (n + 1) \div 2 = n \div 2 /\ n \div 2 = ((n - 1) \div 2) + 1
  BY SMT

(* A thread's lines grow by one when it returns from zem_down.             *)
LEMMA LinesGrow ==
  ASSUME TestType, test' = test, NEW t \in Callers, Makes(t)
  PROVE  /\ Lines(t) \in Nat
         /\ Lines(t)' = IF Op(t).op = "zem_down" THEN Lines(t) + 1 ELSE Lines(t)
         /\ \A u \in Callers \ {t} : ip'[u] = ip[u] /\ Lines(u)' = Lines(u)
<1>1. /\ ip[t] \in Nat \ {0} /\ ip'[t] = ip[t] + 1 /\ Program' = Program
      /\ \A u \in Callers \ {t} : ip'[u] = ip[u]
  BY DEF TestType, Makes, Program
<1>2. PICK n, P : n = ip[t] /\ P = Program[t]
  OBVIOUS
<1>3. PICK A, B : /\ A = {i \in 1..(n - 1) : P[i].op = "zem_down"}
                  /\ B = {i \in 1..((n + 1) - 1) : P[i].op = "zem_down"}
  OBVIOUS
<1>4. Lines(t) = Cardinality(A) /\ Lines(t)' = Cardinality(B)
  BY <1>1, <1>2, <1>3 DEF Lines
<1>5. IsFiniteSet(A) /\ Cardinality(A) \in Nat
  <2>1. IsFiniteSet(1..(n - 1))
    BY <1>1, <1>2, FS_Interval
  <2>2. A \subseteq 1..(n - 1)
    BY <1>3
  <2> QED BY <2>1, <2>2, FS_Subset, FS_CardinalityType
<1>6. n \notin A
  BY <1>1, <1>2, <1>3
<1>7. B = IF P[n].op = "zem_down" THEN A \cup {n} ELSE A
  BY <1>1, <1>2, <1>3
<1>8. Cardinality(A \cup {n}) = Cardinality(A) + 1
  BY <1>5, <1>6, FS_AddElement
<1>9. \A u \in Callers \ {t} : Lines(u)' = Lines(u)
  BY <1>1 DEF Lines
<1> QED BY <1>1, <1>2, <1>4, <1>5, <1>7, <1>8, <1>9 DEF Op

LEMMA NoLines == ASSUME NEW t, ip[t] = 1 PROVE Lines(t) = 0
<1>1. {i \in 1..(ip[t] - 1) : Program[t][i].op = "zem_down"} = {}
  OBVIOUS
<1> QED BY <1>1, FS_EmptySet DEF Lines

(* The accounts of test-toggle.c: only a thread downs its semaphore, only  *)
(* the one before it ups it, and main that of thread 0 once.               *)
Before(i) == IF i = 0 THEN NUM_THREADS - 1 ELSE i - 1

ToggleAccounts ==
  \A i \in Sems :
    /\ Lines(i) = ip[i] \div 2 /\ downs[i] = ip[i] \div 2
    /\ ups[i] = ((ip[Before(i)] - 1) \div 2)
                  + (IF i = 0 /\ ip[TestMain] > 1 THEN 1 ELSE 0)

(* The accounts of test-zem.c: both threads down the semaphore child and   *)
(* up parent, main does the opposite.                                      *)
Parents(i) == IF ip[i] > 2 THEN 1 ELSE 0

ZemAccounts ==
  /\ \A i \in {0, 1} : ip[i] \in 1..3 /\ Lines(i) = IF ip[i] > 1 THEN 1 ELSE 0
  /\ downs[0] = Lines(0) + Lines(1)
  /\ ups[1] = Parents(0) + Parents(1)
  /\ ups[0] = IF ip[TestMain] <= 3 THEN 0 ELSE IF ip[TestMain] <= 5 THEN 1 ELSE 2
  /\ downs[1] = IF ip[TestMain] <= 4 THEN 0 ELSE IF ip[TestMain] <= 6 THEN 1 ELSE 2

Accounts == /\ TestType /\ ZInv /\ InCalls
            /\ test = "toggle" => ToggleAccounts
            /\ test = "zem" => ZemAccounts

LEMMA ToggleStep ==
  ASSUME TheTests, Accounts, test = "toggle", test' = test,
         NEW t \in Callers, Makes(t)
  PROVE  ToggleAccounts'
<1>0. /\ TestType /\ ip[t] \in Nat \ {0} /\ ip'[t] = ip[t] + 1
      /\ \A u \in Callers : ip[u] \in Nat \ {0}
      /\ ups \in [Sems -> Nat] /\ downs \in [Sems -> Nat]
      /\ ToggleAccounts /\ ip[t] <= Len(Program[t])
  BY Numbers DEF Accounts, TestType, Makes, ZInv, ZTypeOK
<1>1. /\ Lines(t)' = IF Op(t).op = "zem_down" THEN Lines(t) + 1 ELSE Lines(t)
      /\ \A u \in Callers \ {t} : ip'[u] = ip[u] /\ Lines(u)' = Lines(u)
  BY <1>0, LinesGrow
<1>2. \A i \in Sems : Before(i) \in Sems /\ i \in Callers /\ TestMain # i /\ TestMain # Before(i)
  BY Numbers DEF Before
<1>3. \A i \in Sems : Before(i)' = Before(i)
  BY DEF Before
<1>4. ASSUME NEW i \in Sems
      PROVE  /\ Lines(i) = ip[i] \div 2 /\ downs[i] = ip[i] \div 2
             /\ ups[i] = ((ip[Before(i)] - 1) \div 2)
                           + (IF i = 0 /\ ip[TestMain] > 1 THEN 1 ELSE 0)
  BY <1>0 DEF ToggleAccounts
<1>5. SUFFICES ASSUME NEW i \in Sems
               PROVE  /\ Lines(i)' = ip'[i] \div 2 /\ downs'[i] = ip'[i] \div 2
                      /\ ups'[i] = ((ip'[Before(i)] - 1) \div 2)
                                    + (IF i = 0 /\ ip'[TestMain] > 1 THEN 1 ELSE 0)
  BY <1>3 DEF ToggleAccounts
<1>6. PICK a, b, m : a = ip[i] /\ b = ip[Before(i)] /\ m = ip[TestMain]
  OBVIOUS
<1>7. /\ a \in Nat \ {0} /\ b \in Nat \ {0} /\ m \in Nat \ {0}
      /\ downs[i] \in Nat /\ ups[i] \in Nat
      /\ Lines(i) = a \div 2 /\ downs[i] = a \div 2
      /\ ups[i] = ((b - 1) \div 2) + (IF i = 0 /\ m > 1 THEN 1 ELSE 0)
  BY <1>0, <1>2, <1>4, <1>6, Numbers
<1>8. CASE t = TestMain
  <2>1. ip'[i] = a /\ ip'[Before(i)] = b /\ ip'[TestMain] = m + 1 /\ Lines(i)' = Lines(i)
    BY <1>0, <1>1, <1>2, <1>6, <1>8
  <2>2. CASE m = 1
    <3>1. Op(t) = U(0)
      BY <1>0, <1>6, <1>8, <2>2, TogglePrograms DEF Op
    <3>2. ups' = [ups EXCEPT ![0] = @ + 1] /\ UNCHANGED downs
      BY <3>1, MakesCall, Numbers
    <3>3. ups'[i] = IF i = 0 THEN ups[i] + 1 ELSE ups[i]
      BY <1>0, <3>2
    <3> QED BY <1>7, <2>1, <2>2, <3>2, <3>3, Halves
  <2>3. CASE m # 1
    <3>1. ip[t] \in 1..Len(Program[TestMain]) /\ ip[t] > 1
      <4>1. Program[TestMain] \in Seq(Ops)
        BY <1>0, <1>8, ZemTestsAssumption DEF ZemTestsAssumption, TestType, Program
      <4> QED BY <1>0, <1>6, <1>8, <2>3, <4>1
    <3>2. Op(t).op \in {"pthread_create", "pthread_join"}
      BY <1>0, <1>8, <3>1, TogglePrograms DEF Op
    <3>3. UNCHANGED <<ups, downs>>
      BY <3>2, MakesCall
    <3> QED BY <1>7, <2>1, <2>3, <3>3, Halves
  <2> QED BY <2>2, <2>3
<1>9. CASE t # TestMain
  <2>1. t \in Sems /\ ip'[TestMain] = m
    BY <1>1, <1>6, <1>9, Numbers
  <2>2. PICK k : k = ip[t] /\ k \in Nat \ {0} /\ ip'[t] = k + 1
    BY <1>0
  <2>3. Op(t) = IF k % 2 = 1 THEN D(t) ELSE U((t + 1) % NUM_THREADS)
    <3>1. /\ Len(Program[t]) = 2 * NUM_ITER
          /\ \A n \in 1..(2 * NUM_ITER) :
               Program[t][n] = IF n % 2 = 1 THEN D(t) ELSE U((t + 1) % NUM_THREADS)
      BY <1>0, <2>1, TogglePrograms
    <3>2. 2 * NUM_ITER \in Nat
      BY Numbers
    <3>3. k \in 1..(2 * NUM_ITER)
      BY <1>0, <2>2, <3>1, <3>2
    <3> QED BY <2>2, <3>1, <3>3 DEF Op
  <2>4. CASE k % 2 = 1
    <3>1. /\ downs' = [downs EXCEPT ![t] = @ + 1] /\ UNCHANGED ups
          /\ Lines(t)' = Lines(t) + 1
      BY <1>1, <2>1, <2>3, <2>4, MakesCall
    <3>2. Lines(i)' = ip'[i] \div 2 /\ downs'[i] = ip'[i] \div 2
      <4>1. CASE i = t
        <5>1. downs'[i] = downs[i] + 1 /\ Lines(i)' = Lines(i) + 1 /\ ip'[i] = a + 1 /\ a = k
          BY <1>0, <1>6, <2>2, <3>1, <4>1
        <5> QED BY <1>7, <2>4, <5>1, Halves
      <4>2. CASE i # t
        <5>1. downs'[i] = downs[i] /\ Lines(i)' = Lines(i) /\ ip'[i] = a
          BY <1>0, <1>1, <1>2, <1>6, <3>1, <4>2
        <5> QED BY <1>7, <5>1
      <4> QED BY <4>1, <4>2
    <3>3. (ip'[Before(i)] - 1) \div 2 = (b - 1) \div 2
      <4>1. CASE Before(i) = t
        <5>1. ip'[Before(i)] = k + 1 /\ b = k
          BY <1>6, <2>2, <4>1
        <5>2. (k + 1) - 1 = k
          BY <2>2
        <5> QED BY <2>2, <2>4, <5>1, <5>2, Halves
      <4>2. CASE Before(i) # t
        BY <1>1, <1>2, <1>6, <4>2
      <4> QED BY <4>1, <4>2
    <3> QED BY <1>7, <2>1, <3>1, <3>2, <3>3
  <2>5. CASE k % 2 # 1
    <3>0. PICK n \in Sems : n = (t + 1) % NUM_THREADS /\ (Before(i) = t <=> i = n)
      <4>1. (t + 1) % NUM_THREADS = IF t = NUM_THREADS - 1 THEN 0 ELSE t + 1
        BY <2>1, Circle
      <4>2. PICK n : n = IF t = NUM_THREADS - 1 THEN 0 ELSE t + 1
        OBVIOUS
      <4>3. n \in Sems
        BY <2>1, <4>2, Numbers DEF TheTests, TestSems
      <4>4. Before(i) = t <=> i = n
        BY <2>1, <4>2, Numbers DEF Before
      <4> QED BY <4>1, <4>2, <4>3, <4>4
    <3>1. /\ ups' = [ups EXCEPT ![n] = @ + 1] /\ UNCHANGED downs
          /\ Lines(t)' = Lines(t)
      BY <1>1, <2>1, <2>3, <2>5, <3>0, MakesCall
    <3>2. Lines(i)' = ip'[i] \div 2 /\ downs'[i] = ip'[i] \div 2
      <4>1. CASE i = t
        <5>1. downs'[i] = downs[i] /\ Lines(i)' = Lines(i) /\ ip'[i] = a + 1 /\ a = k
          BY <1>0, <1>6, <2>2, <3>1, <4>1
        <5> QED BY <1>7, <2>5, <5>1, Halves
      <4>2. CASE i # t
        <5>1. downs'[i] = downs[i] /\ Lines(i)' = Lines(i) /\ ip'[i] = a
          BY <1>0, <1>1, <1>2, <1>6, <3>1, <4>2
        <5> QED BY <1>7, <5>1
      <4> QED BY <4>1, <4>2
    <3>3. CASE i = n
      <4>1. ip'[Before(i)] = k + 1 /\ b = k /\ ups'[i] = ups[i] + 1
        BY <1>0, <1>6, <2>2, <3>0, <3>1, <3>3
      <4>2. (k + 1) - 1 = k /\ k \div 2 = ((k - 1) \div 2) + 1
        BY <2>2, <2>5, Halves
      <4>3. ups'[i] = ((ip'[Before(i)] - 1) \div 2)
                        + (IF i = 0 /\ ip'[TestMain] > 1 THEN 1 ELSE 0)
        BY <1>7, <2>1, <2>2, <4>1, <4>2, Halves
      <4> QED BY <3>2, <4>3
    <3>4. CASE i # n
      <4>1. ip'[Before(i)] = b /\ ups'[i] = ups[i]
        BY <1>0, <1>1, <1>2, <1>6, <3>0, <3>1, <3>4
      <4> QED BY <1>7, <2>1, <3>2, <4>1
    <3> QED BY <3>3, <3>4
  <2> QED BY <2>4, <2>5
<1> QED BY <1>8, <1>9

LEMMA ZemStep ==
  ASSUME TheTests, Accounts, test = "zem", test' = test,
         NEW t \in Callers, Makes(t)
  PROVE  ZemAccounts'
<1>0. /\ TestType /\ ip[t] \in Nat \ {0} /\ ip'[t] = ip[t] + 1
      /\ ip[TestMain] \in Nat \ {0} /\ ip[0] \in 1..3 /\ ip[1] \in 1..3
      /\ ups \in [Sems -> Nat] /\ downs \in [Sems -> Nat]
      /\ ip[t] <= Len(Program[t])
  BY Numbers DEF Accounts, ZemAccounts, TestType, Makes, ZInv, ZTypeOK
<1>1. /\ Lines(t)' = IF Op(t).op = "zem_down" THEN Lines(t) + 1 ELSE Lines(t)
      /\ \A u \in Callers \ {t} : ip'[u] = ip[u] /\ Lines(u)' = Lines(u)
  BY <1>0, LinesGrow
<1>2. 0 \in Callers /\ 1 \in Callers /\ TestMain \in Callers /\ TestMain \notin {0, 1}
  BY Numbers
<1>3. PICK m, i, j : m = ip[TestMain] /\ i = ip[0] /\ j = ip[1]
  OBVIOUS
<1>4. /\ m \in Nat \ {0} /\ i \in 1..3 /\ j \in 1..3
      /\ Lines(0) = (IF i > 1 THEN 1 ELSE 0) /\ Lines(1) = (IF j > 1 THEN 1 ELSE 0)
      /\ downs[0] = Lines(0) + Lines(1)
      /\ ups[1] = (IF i > 2 THEN 1 ELSE 0) + (IF j > 2 THEN 1 ELSE 0)
      /\ ups[0] = IF m <= 3 THEN 0 ELSE IF m <= 5 THEN 1 ELSE 2
      /\ downs[1] = IF m <= 4 THEN 0 ELSE IF m <= 6 THEN 1 ELSE 2
  BY <1>0, <1>3 DEF Accounts, ZemAccounts, Parents
<1>5. SUFFICES
        /\ ip'[0] \in 1..3 /\ Lines(0)' = IF ip'[0] > 1 THEN 1 ELSE 0
        /\ ip'[1] \in 1..3 /\ Lines(1)' = IF ip'[1] > 1 THEN 1 ELSE 0
        /\ downs'[0] = Lines(0)' + Lines(1)'
        /\ ups'[1] = (IF ip'[0] > 2 THEN 1 ELSE 0) + (IF ip'[1] > 2 THEN 1 ELSE 0)
        /\ ups'[0] = IF ip'[TestMain] <= 3 THEN 0 ELSE IF ip'[TestMain] <= 5 THEN 1 ELSE 2
        /\ downs'[1] = IF ip'[TestMain] <= 4 THEN 0 ELSE IF ip'[TestMain] <= 6 THEN 1 ELSE 2
  BY DEF ZemAccounts, Parents
<1>6. CASE t = TestMain
  <2>1. ip'[0] = i /\ ip'[1] = j /\ Lines(0)' = Lines(0) /\ Lines(1)' = Lines(1)
        /\ ip'[TestMain] = m + 1
    BY <1>0, <1>1, <1>2, <1>3, <1>6
  <2>2. m \in 1..8
    <3>1. Len(Program[TestMain]) = 8
      BY <1>0, ZemPrograms
    <3>2. ip[t] = m
      BY <1>3, <1>6
    <3> QED BY <1>0, <1>4, <1>6, <3>1, <3>2
  <2>3. CASE m \in {1, 2, 7, 8}
    <3>1. Op(t).op \in {"pthread_create", "pthread_join"}
      BY <1>0, <1>3, <1>6, <2>3, ZemPrograms DEF Op
    <3>2. UNCHANGED <<ups, downs>>
      BY <3>1, MakesCall
    <3> QED BY <1>4, <2>1, <2>3, <3>2
  <2>4. CASE m \in {3, 5}
    <3>1. Op(t) = U(0)
      BY <1>0, <1>3, <1>6, <2>4, ZemPrograms DEF Op
    <3>2. ups'[0] = ups[0] + 1 /\ ups'[1] = ups[1] /\ UNCHANGED downs
      BY <1>0, <3>1, MakesCall, Numbers
    <3> QED BY <1>4, <2>1, <2>4, <3>2
  <2>5. CASE m \in {4, 6}
    <3>1. Op(t) = D(1)
      BY <1>0, <1>3, <1>6, <2>5, ZemPrograms DEF Op
    <3>2. downs'[1] = downs[1] + 1 /\ downs'[0] = downs[0] /\ UNCHANGED ups
      BY <1>0, <3>1, MakesCall, Numbers
    <3> QED BY <1>4, <2>1, <2>5, <3>2
  <2> QED BY <2>2, <2>3, <2>4, <2>5
<1>7. CASE t \in {0, 1}
  <2>1. ip'[TestMain] = m
    BY <1>1, <1>2, <1>3, <1>7
  <2>2. Len(Program[t]) = 2 /\ Program[t][1] = D(0) /\ Program[t][2] = U(1)
    BY <1>0, <1>7, ZemPrograms
  <2>3. CASE ip[t] = 1
    <3>1. Op(t) = D(0)
      BY <2>2, <2>3 DEF Op
    <3>2. /\ downs'[0] = downs[0] + 1 /\ downs'[1] = downs[1] /\ UNCHANGED ups
          /\ Lines(t)' = Lines(t) + 1
      <4>1. 0 \in Sems /\ 1 \in Sems
        BY Numbers
      <4>2. downs' = [downs EXCEPT ![0] = @ + 1] /\ UNCHANGED ups /\ Op(t).op = "zem_down"
        BY <3>1, <4>1, MakesCall
      <4> QED BY <1>0, <1>1, <4>1, <4>2
    <3>3. CASE t = 0
      <4>1. ip'[0] = 2 /\ i = 1 /\ ip'[1] = j /\ Lines(0)' = Lines(0) + 1 /\ Lines(1)' = Lines(1)
        BY <1>0, <1>1, <1>2, <1>3, <2>3, <3>2, <3>3
      <4> QED BY <1>4, <2>1, <3>2, <4>1
    <3>4. CASE t = 1
      <4>1. ip'[1] = 2 /\ j = 1 /\ ip'[0] = i /\ Lines(1)' = Lines(1) + 1 /\ Lines(0)' = Lines(0)
        BY <1>0, <1>1, <1>2, <1>3, <2>3, <3>2, <3>4
      <4> QED BY <1>4, <2>1, <3>2, <4>1
    <3> QED BY <1>7, <3>3, <3>4
  <2>4. CASE ip[t] = 2
    <3>1. Op(t) = U(1)
      BY <2>2, <2>4 DEF Op
    <3>2. /\ ups'[1] = ups[1] + 1 /\ ups'[0] = ups[0] /\ UNCHANGED downs
          /\ Lines(t)' = Lines(t)
      <4>1. 0 \in Sems /\ 1 \in Sems
        BY Numbers
      <4>2. ups' = [ups EXCEPT ![1] = @ + 1] /\ UNCHANGED downs /\ Op(t).op = "zem_up"
        BY <3>1, <4>1, MakesCall
      <4> QED BY <1>0, <1>1, <4>1, <4>2
    <3>3. CASE t = 0
      <4>1. ip'[0] = 3 /\ i = 2 /\ ip'[1] = j /\ Lines(0)' = Lines(0) /\ Lines(1)' = Lines(1)
        BY <1>0, <1>1, <1>2, <1>3, <2>4, <3>2, <3>3
      <4> QED BY <1>4, <2>1, <3>2, <4>1
    <3>4. CASE t = 1
      <4>1. ip'[1] = 3 /\ j = 2 /\ ip'[0] = i /\ Lines(1)' = Lines(1) /\ Lines(0)' = Lines(0)
        BY <1>0, <1>1, <1>2, <1>3, <2>4, <3>2, <3>4
      <4> QED BY <1>4, <2>1, <3>2, <4>1
    <3> QED BY <1>7, <3>3, <3>4
  <2> QED BY <1>0, <2>2, <2>3, <2>4
<1>8. CASE t \notin {0, 1, TestMain}
  <2>1. t \in Sems \ {0, 1}
    BY <1>8, Numbers
  <2>2. Len(Program[t]) = 0
    BY <1>0, <2>1, ZemPrograms
  <2> QED BY <1>0, <2>2
<1> QED BY <1>6, <1>7, <1>8

LEMMA AccountsStep ==
  ASSUME TheTests, Accounts, [TestNext]_tvars PROVE Accounts'
<1>1. TestType' /\ ZInv'
  <2>1. TestType' /\ [ZNext]_zvars
    BY TestStep DEF Accounts
  <2> QED BY <2>1, ZNextInv DEF Accounts
<1>2. /\ test' = test /\ InCalls'
      /\ (\E t \in Callers : Makes(t)) \/ UNCHANGED <<ip, ups, downs>>
  BY Effects DEF Accounts
<1>3. CASE UNCHANGED <<ip, ups, downs>>
  <2>1. \A t : Lines(t)' = Lines(t)
    BY <1>2, <1>3 DEF Lines, Program
  <2>2. test = "toggle" => ToggleAccounts'
    BY <1>3, <2>1 DEF Accounts, ToggleAccounts, Before
  <2>3. test = "zem" => ZemAccounts'
    BY <1>3, <2>1 DEF Accounts, ZemAccounts, Parents
  <2> QED BY <1>1, <1>2, <2>2, <2>3 DEF Accounts
<1>4. ASSUME NEW t \in Callers, Makes(t) PROVE Accounts'
  BY <1>1, <1>2, <1>4, ToggleStep, ZemStep DEF Accounts
<1> QED BY <1>2, <1>3, <1>4

LEMMA AccountsStart == ASSUME TheTests, TestInit PROVE Accounts
<1>1. TestType /\ ZInv
  BY ZemTestsAssumption, ZInitInv DEF TestInit, TestType, ZemTestsAssumption
<1>2. InCalls
  BY DEF TestInit, ZInit, InCalls, InDown
<1>3. \A t \in Callers : ip[t] = 1 /\ Lines(t) = 0
  BY NoLines DEF TestInit
<1>4. \A s \in Sems : ups[s] = 0 /\ downs[s] = 0
  BY DEF TestInit, ZInit
<1>5. 1 \div 2 = 0 /\ (1 - 1) \div 2 = 0
  OBVIOUS
<1>6. ToggleAccounts
  <2>1. \A i \in Sems : Before(i) \in Callers
    BY Numbers DEF Before
  <2>2. ASSUME NEW i \in Sems
        PROVE  /\ Lines(i) = ip[i] \div 2 /\ downs[i] = ip[i] \div 2
               /\ ups[i] = ((ip[Before(i)] - 1) \div 2)
                             + (IF i = 0 /\ ip[TestMain] > 1 THEN 1 ELSE 0)
    <3>1. i \in Callers /\ TestMain \in Callers
      BY Numbers
    <3>2. /\ ip[i] = 1 /\ Lines(i) = 0 /\ ip[Before(i)] = 1 /\ ip[TestMain] = 1
          /\ ups[i] = 0 /\ downs[i] = 0
      BY <1>3, <1>4, <2>1, <3>1
    <3> QED BY <1>5, <3>2
  <2> QED BY <2>2 DEF ToggleAccounts
<1>7. ZemAccounts
  BY <1>3, <1>4, Numbers DEF ZemAccounts, Parents
<1> QED BY <1>1, <1>2, <1>6, <1>7 DEF Accounts

(* Nobody is let through without a unit. *)
LEMMA WithinUnits ==
  ASSUME TheTests, ZInv, ~excused, NEW s \in Sems
  PROVE  downs[s] \in Nat /\ ups[s] \in Nat /\ downs[s] <= ups[s]
<1>1. /\ downs[s] \in Nat /\ ups[s] \in Nat /\ Units[s] = 0 /\ value[s] \in Int
      /\ downs[s] + Positive(value[s]) + Cardinality(woken[s]) = Units[s] + ups[s]
  BY Numbers DEF ZInv, ZTypeOK, Balanced
<1>2. Positive(value[s]) \in Nat /\ Cardinality(woken[s]) \in Nat
  BY <1>1, PositiveType, QueuesFinite DEF ZInv
<1> QED BY <1>1, <1>2

LEMMA AccountsInOrder == ASSUME TheTests, Accounts PROVE PrintOrder
<1>1. ASSUME test = "toggle", ~excused
      PROVE  /\ \A t \in TestSems : t > 0 => Lines(t) <= Lines(t - 1)
             /\ Lines(0) <= Lines(NUM_THREADS - 1) + 1
  <2>1. ASSUME NEW i \in Sems
        PROVE  /\ Lines(i) \in Nat /\ Lines(Before(i)) \in Nat
               /\ Lines(i) <= Lines(Before(i)) + (IF i = 0 THEN 1 ELSE 0)
    <3>1. PICK k : k \in Sems /\ k = Before(i)
      BY Numbers DEF Before
    <3>2. PICK a, b \in Nat \ {0} : a = ip[i] /\ b = ip[k]
      BY <3>1, Numbers DEF Accounts, TestType
    <3>3. /\ Lines(i) = a \div 2 /\ downs[i] = a \div 2 /\ Lines(k) = b \div 2
          /\ ups[i] = ((b - 1) \div 2) + (IF i = 0 /\ ip[TestMain] > 1 THEN 1 ELSE 0)
      BY <1>1, <3>1, <3>2 DEF Accounts, ToggleAccounts
    <3>4. downs[i] <= ups[i]
      BY <1>1, WithinUnits DEF Accounts
    <3>5. /\ a \div 2 \in Nat /\ b \div 2 \in Nat
          /\ (b - 1) \div 2 \in Nat /\ (b - 1) \div 2 <= b \div 2
      BY <3>2, Halves
    <3> QED BY <3>1, <3>3, <3>4, <3>5
  <2>2. ASSUME NEW t \in TestSems, t > 0 PROVE Lines(t) <= Lines(t - 1)
    <3>1. t \in Sems /\ Before(t) = t - 1 /\ t # 0
      BY <2>2, Numbers DEF TheTests, Before
    <3> QED BY <2>1, <3>1
  <2>3. Lines(0) <= Lines(NUM_THREADS - 1) + 1
    <3>1. 0 \in Sems /\ Before(0) = NUM_THREADS - 1
      BY Numbers DEF Before
    <3> QED BY <2>1, <3>1
  <2> QED BY <2>2, <2>3
<1>2. ASSUME test = "zem", ~excused
      PROVE  /\ ip[TestMain] <= 3 => Lines(0) + Lines(1) = 0
             /\ ip[TestMain] = 5  => Lines(0) + Lines(1) = 1
             /\ ip[TestMain] = 7  => Lines(0) + Lines(1) = 2
  <2>1. downs[0] <= ups[0] /\ downs[1] <= ups[1] /\ downs[0] \in Nat
    BY <1>2, WithinUnits, Numbers DEF Accounts
  <2>2. PICK m \in Nat : m = ip[TestMain]
    BY Numbers DEF Accounts, TestType
  <2>3. PICK i \in 1..3, j \in 1..3 :
          /\ Lines(0) = (IF i > 1 THEN 1 ELSE 0) /\ Lines(1) = (IF j > 1 THEN 1 ELSE 0)
          /\ downs[0] = Lines(0) + Lines(1)
          /\ ups[1] = (IF i > 2 THEN 1 ELSE 0) + (IF j > 2 THEN 1 ELSE 0)
          /\ ups[0] = IF m <= 3 THEN 0 ELSE IF m <= 5 THEN 1 ELSE 2
          /\ downs[1] = IF m <= 4 THEN 0 ELSE IF m <= 6 THEN 1 ELSE 2
    BY <1>2, <2>2 DEF Accounts, ZemAccounts, Parents
  <2> QED BY <2>1, <2>2, <2>3
<1> QED BY <1>1, <1>2 DEF PrintOrder, InTurn, WhenTrue

(* The lines of test-toggle.c come in turn and those of test-zem.c when    *)
(* they are true, for any number of threads and of rounds, unless a wait   *)
(* returned without a signal.                                              *)
THEOREM LinesInOrder ==
  ASSUME Sems = TestSems, Callers = TestThreads, Units = Zero, Main = TestMain,
         Programs = Tests
  PROVE  TestSpec => []PrintOrder
<1>0. TheTests
  BY DEF TheTests
<1>1. TestInit => Accounts
  BY <1>0, AccountsStart
<1>2. Accounts /\ [TestNext]_tvars => Accounts'
  BY <1>0, AccountsStep
<1>3. Accounts => PrintOrder
  BY <1>0, AccountsInOrder
<1> QED BY <1>1, <1>2, <1>3, PTL DEF TestSpec

-----------------------------------------------------------------------------
(* Both read-write locks of the lab are what they promise, for any finite  *)
(* sets of readers and writers.                                            *)

(* The writers that are counted in num_writers. *)
registered == {w \in Writers : pc[w] \in {"waiting", "writing"}}

Types ==
  /\ is_reader_pref \in BOOLEAN
  /\ lock \in Threads \cup {Nobody}
  /\ inner \in Readers \cup {Nobody}
  /\ pc \in [Threads -> ReaderPC \cup WriterPC]
  /\ \A r \in Readers : pc[r] \in ReaderPC
  /\ \A w \in Writers : pc[w] \in WriterPC
  /\ left \in [Threads -> 0..Rounds]

Counts ==
  /\ num_readers = Cardinality(reading)
  /\ ~is_reader_pref => num_writers = Cardinality(registered)
  /\ is_reader_pref => num_writers = 0

(* Who holds which mutex: a writer that has the read-write lock holds lock,*)
(* readers hold it together, whoever of them took it, and the inner mutex  *)
(* is kept by the first reader, which has seen no reader and no writer.    *)
Mutexes ==
  /\ \A w \in writing : lock = w
  /\ reading # {} => lock \in Readers
  /\ \A r \in Readers : pc[r] = "first" <=> inner = r
  /\ inner # Nobody => reading = {}
  /\ inner # Nobody /\ ~is_reader_pref => registered = {}

(* A reader waits for a writer that will wake it. *)
Waits == \A r \in Readers : pc[r] = "cond" => ~is_reader_pref /\ registered # {}

Inv == Types /\ Counts /\ Mutexes /\ Waits

-----------------------------------------------------------------------------
LEMMA FiniteGroups ==
  /\ IsFiniteSet(reading) /\ Cardinality(reading) \in Nat
  /\ IsFiniteSet(registered) /\ Cardinality(registered) \in Nat
  /\ Cardinality(reading) <= Cardinality(Readers)
  /\ Cardinality(registered) <= Cardinality(Writers)
  /\ Cardinality(reading) = 0 <=> reading = {}
  /\ Cardinality(registered) = 0 <=> registered = {}
<1>1. reading \subseteq Readers /\ registered \subseteq Writers
  BY DEF reading, registered
<1>2. IsFiniteSet(reading) /\ IsFiniteSet(registered)
  BY <1>1, FS_Subset, RWLockAssumption DEF RWLockAssumption
<1> QED
  BY <1>1, <1>2, FS_Subset, FS_CardinalityType, FS_EmptySet, RWLockAssumption
     DEF RWLockAssumption

(* A thread is a reader or a writer. *)
LEMMA Kinds ==
  /\ \A r \in Readers : r \in Threads /\ r \notin Writers /\ r # Nobody
  /\ \A w \in Writers : w \in Threads /\ w \notin Readers /\ w # Nobody
  BY RWLockAssumption DEF RWLockAssumption, Threads

LEMMA InitInv == Init => Inv
<1> SUFFICES ASSUME Init PROVE Inv
  OBVIOUS
<1>1. reading = {} /\ registered = {} /\ writing = {}
  BY Kinds DEF Init, reading, registered, writing
<1>2. Types
  BY Kinds, RWLockAssumption DEF Init, Types, ReaderPC, WriterPC, RWLockAssumption
<1>3. Counts
  BY <1>1, FS_EmptySet DEF Init, Counts
<1>4. Mutexes /\ Waits
  BY <1>1, Kinds DEF Init, Mutexes, Waits
<1> QED
  BY <1>2, <1>3, <1>4 DEF Inv

(* How the groups change when one thread goes from one place to another.   *)
LEMMA Moves ==
  ASSUME Types, NEW t \in Threads, NEW p \in ReaderPC \cup WriterPC, Goto(t, p)
  PROVE  /\ pc' \in [Threads -> ReaderPC \cup WriterPC]
         /\ pc'[t] = p /\ \A u \in Threads \ {t} : pc'[u] = pc[u]
         /\ reading' = IF t \in Readers /\ p = "reading" THEN reading \cup {t}
                       ELSE reading \ {t}
         /\ registered' = IF t \in Writers /\ p \in {"waiting", "writing"}
                            THEN registered \cup {t} ELSE registered \ {t}
         /\ writing' = IF t \in Writers /\ p \in {"writing", "leaving"}
                         THEN writing \cup {t} ELSE writing \ {t}
<1>1. /\ pc' \in [Threads -> ReaderPC \cup WriterPC]
      /\ pc'[t] = p /\ \A u \in Threads \ {t} : pc'[u] = pc[u]
  BY DEF Goto, Types
<1>2. reading' = IF t \in Readers /\ p = "reading" THEN reading \cup {t}
                 ELSE reading \ {t}
  BY <1>1, Kinds DEF reading
<1>3. registered' = IF t \in Writers /\ p \in {"waiting", "writing"}
                      THEN registered \cup {t} ELSE registered \ {t}
  BY <1>1, Kinds DEF registered
<1>4. writing' = IF t \in Writers /\ p \in {"writing", "leaving"}
                   THEN writing \cup {t} ELSE writing \ {t}
  BY <1>1, Kinds DEF writing
<1> QED
  BY <1>1, <1>2, <1>3, <1>4

-----------------------------------------------------------------------------
(* The steps of readers and writers that change no group. *)
LEMMA QuietStep ==
  ASSUME Inv, NEW t \in Threads, NEW p \in {"called", "cond"}, Goto(t, p),
         pc[t] \in {"idle", "called", "cond"},
         p = "cond" => t \in Readers /\ ~is_reader_pref /\ registered # {},
         left' \in [Threads -> 0..Rounds],
         UNCHANGED <<is_reader_pref, lock, inner, num_readers, num_writers>>
  PROVE  /\ Inv' /\ UNCHANGED <<reading, writing>>
<1>0. p \in ReaderPC \cup WriterPC /\ Types /\ (t \in Writers => p \in WriterPC)
      /\ (t \in Readers => p \in ReaderPC)
  BY Kinds DEF Inv, ReaderPC, WriterPC
<1>1. UNCHANGED <<reading, registered, writing>>
  BY <1>0, Moves DEF reading, registered, writing
<1>2. /\ pc' \in [Threads -> ReaderPC \cup WriterPC]
      /\ pc'[t] = p /\ \A u \in Threads \ {t} : pc'[u] = pc[u]
  BY <1>0, Moves
<1>3. Types'
  BY <1>0, <1>2, Kinds DEF Types
<1>4. Counts'
  BY <1>1 DEF Inv, Counts
<1>5. Mutexes'
  BY <1>1, <1>2, Kinds DEF Inv, Mutexes
<1>6. Waits'
  BY <1>1, <1>2, Kinds DEF Inv, Waits
<1> QED
  BY <1>1, <1>3, <1>4, <1>5, <1>6 DEF Inv

LEMMA CallInv ==
  ASSUME Inv, NEW t \in Threads, Call(t)
  PROVE  Inv' /\ UNCHANGED <<reading, writing>>
<1>1. left' \in [Threads -> 0..Rounds]
  BY RWLockAssumption DEF Call, Inv, Types, RWLockAssumption
<1> QED
  BY <1>1, QuietStep DEF Call

LEMMA ReaderWaitsInv ==
  ASSUME Inv, NEW r \in Readers, ReaderWaits(r)
  PROVE  Inv' /\ UNCHANGED <<reading, writing>>
<1>1. ~is_reader_pref /\ registered # {}
  BY FiniteGroups DEF ReaderWaits, MustYield, AnyWriters, Inv, Counts
<1> QED
  BY <1>1, QuietStep, Kinds DEF ReaderWaits, Inv, Types

LEMMA SpuriousInv ==
  ASSUME Inv, NEW r \in Readers, Spurious(r)
  PROVE  Inv' /\ UNCHANGED <<reading, writing>>
  BY QuietStep, Kinds DEF Spurious, Inv, Types

(* The first reader keeps the inner mutex. *)
LEMMA ReaderFirstInv ==
  ASSUME Inv, NEW r \in Readers, ReaderFirst(r)
  PROVE  Inv' /\ UNCHANGED <<reading, writing>>
<1>0. /\ Goto(r, "first") /\ pc[r] = "called" /\ inner = Nobody /\ inner' = r
      /\ UNCHANGED <<is_reader_pref, lock, num_readers, num_writers, left>>
      /\ "first" \in ReaderPC /\ Types /\ r \in Threads
  BY Kinds DEF ReaderFirst, Inv, ReaderPC
<1>1. UNCHANGED <<reading, registered, writing>>
  BY <1>0, Moves, Kinds DEF reading, registered, writing
<1>2. /\ pc' \in [Threads -> ReaderPC \cup WriterPC]
      /\ pc'[r] = "first" /\ \A u \in Threads \ {r} : pc'[u] = pc[u]
  BY <1>0, Moves
<1>3. Types'
  BY <1>0, <1>2, Kinds DEF Types
<1>4. Counts'
  BY <1>0, <1>1 DEF Inv, Counts
<1>5. reading = {} /\ (~is_reader_pref => registered = {})
  BY FiniteGroups DEF ReaderFirst, MustYield, AnyWriters, FirstReader, Inv, Counts
<1>6. Mutexes'
  BY <1>0, <1>1, <1>2, <1>5, Kinds DEF Inv, Mutexes
<1>7. Waits'
  BY <1>0, <1>1, <1>2, Kinds DEF Inv, Waits
<1> QED
  BY <1>1, <1>3, <1>4, <1>6, <1>7 DEF Inv

(* What both ways into the read-write lock do. *)
LEMMA EnterInv ==
  ASSUME Inv, NEW r \in Readers, Goto(r, "reading"), pc[r] \in {"called", "first"},
         UNCHANGED <<is_reader_pref, num_writers, left>>,
         num_readers' = num_readers + 1,
         lock' \in Readers, inner' = Nobody, inner \in {Nobody, r},
         writing = {}
  PROVE  /\ Inv' /\ reading' = reading \cup {r}
         /\ UNCHANGED <<registered, writing>>
<1>0. "reading" \in ReaderPC /\ Types /\ r \in Threads
  BY Kinds DEF Inv, ReaderPC
<1>1. reading' = reading \cup {r} /\ r \notin reading
  BY <1>0, Moves DEF reading
<1>2. UNCHANGED <<registered, writing>>
  BY <1>0, Moves, Kinds DEF registered, writing
<1>3. /\ pc' \in [Threads -> ReaderPC \cup WriterPC]
      /\ pc'[r] = "reading" /\ \A u \in Threads \ {r} : pc'[u] = pc[u]
  BY <1>0, Moves
<1>4. Types'
  BY <1>0, <1>3, Kinds DEF Types
<1>5. Counts'
  <2>1. Cardinality(reading') = Cardinality(reading) + 1
    BY <1>1, FiniteGroups, FS_AddElement
  <2> QED
    BY <1>2, <2>1 DEF Inv, Counts
<1>6. Mutexes'
  BY <1>1, <1>2, <1>3, Kinds DEF Inv, Mutexes
<1>7. Waits'
  BY <1>2, <1>3, Kinds DEF Inv, Waits
<1> QED
  BY <1>1, <1>2, <1>4, <1>5, <1>6, <1>7 DEF Inv

LEMMA ReaderJoinsInv ==
  ASSUME Inv, NEW r \in Readers, ReaderJoins(r)
  PROVE  /\ Inv' /\ reading' = reading \cup {r} /\ r \notin reading
         /\ writing = {} /\ writing' = writing
         /\ ~is_reader_pref => registered = {} /\ registered' = {}
<1>1. reading # {} /\ (~is_reader_pref => registered = {})
  BY FiniteGroups DEF ReaderJoins, MustYield, AnyWriters, FirstReader, Inv, Counts
<1>2. lock \in Readers /\ writing = {}
  BY <1>1, Kinds DEF Inv, Mutexes, writing
<1>3. r \notin reading
  BY DEF ReaderJoins, reading
<1> QED
  BY <1>1, <1>2, <1>3, EnterInv DEF ReaderJoins

LEMMA ReaderLocksInv ==
  ASSUME Inv, NEW r \in Readers, ReaderLocks(r)
  PROVE  /\ Inv' /\ reading' = reading \cup {r} /\ r \notin reading
         /\ writing = {} /\ writing' = writing
         /\ ~is_reader_pref => registered = {} /\ registered' = {}
<1>1. inner = r /\ (~is_reader_pref => registered = {})
  BY Kinds DEF ReaderLocks, Inv, Mutexes
<1>2. writing = {}
  BY Kinds DEF ReaderLocks, Inv, Mutexes, writing
<1>3. r \notin reading
  BY DEF ReaderLocks, reading
<1> QED
  BY <1>1, <1>2, <1>3, EnterInv DEF ReaderLocks

LEMMA ReaderUnlockInv ==
  ASSUME Inv, NEW r \in Readers, ReaderUnlock(r)
  PROVE  /\ Inv' /\ r \in reading /\ reading' = reading \ {r}
         /\ writing' = writing
<1>0. /\ Goto(r, "idle") /\ pc[r] = "reading" /\ inner = Nobody
      /\ num_readers' = num_readers - 1
      /\ lock' = IF num_readers = 1 THEN Nobody ELSE lock
      /\ UNCHANGED <<is_reader_pref, inner, num_writers, left>>
      /\ "idle" \in ReaderPC /\ Types /\ r \in Threads
  BY Kinds DEF ReaderUnlock, Uncounted, LastReader, Inv, ReaderPC
<1>1. r \in reading /\ reading' = reading \ {r}
  BY <1>0, Moves DEF reading
<1>2. UNCHANGED <<registered, writing>>
  BY <1>0, Moves, Kinds DEF registered, writing
<1>3. /\ pc' \in [Threads -> ReaderPC \cup WriterPC]
      /\ pc'[r] = "idle" /\ \A u \in Threads \ {r} : pc'[u] = pc[u]
  BY <1>0, Moves
<1>4. Types'
  BY <1>0, <1>3, Kinds DEF Types
<1>5. Cardinality(reading') = Cardinality(reading) - 1
  BY <1>1, FiniteGroups, FS_RemoveElement
<1>6. Counts'
  BY <1>0, <1>2, <1>5 DEF Inv, Counts
<1>7. lock \in Readers /\ writing = {}
  BY <1>1, Kinds DEF Inv, Mutexes, writing
<1>8. reading' # {} => num_readers # 1
  <2>1. IsFiniteSet(reading')
    BY <1>1, FiniteGroups, FS_Subset
  <2>2. reading' # {} => Cardinality(reading') # 0
    BY <2>1, FS_EmptySet
  <2> QED
    BY <1>5, <2>2, FiniteGroups DEF Inv, Counts
<1>9. Mutexes'
  BY <1>0, <1>1, <1>2, <1>3, <1>7, <1>8, Kinds DEF Inv, Mutexes
<1>10. Waits'
  BY <1>0, <1>2, <1>3, Kinds DEF Inv, Waits
<1> QED
  BY <1>1, <1>2, <1>4, <1>6, <1>9, <1>10 DEF Inv

-----------------------------------------------------------------------------
LEMMA WriterRegistersInv ==
  ASSUME Inv, NEW w \in Writers, WriterRegisters(w)
  PROVE  Inv' /\ UNCHANGED <<reading, writing>>
<1>0. /\ Goto(w, "waiting") /\ pc[w] = "called" /\ inner = Nobody
      /\ num_writers' = num_writers + 1 /\ ~is_reader_pref
      /\ UNCHANGED <<is_reader_pref, lock, inner, num_readers, left>>
      /\ "waiting" \in WriterPC /\ Types /\ w \in Threads
  BY Kinds DEF WriterRegisters, Inv, WriterPC
<1>1. registered' = registered \cup {w} /\ w \notin registered
  BY <1>0, Moves DEF registered
<1>2. UNCHANGED <<reading, writing>>
  BY <1>0, Moves, Kinds DEF reading, writing
<1>3. /\ pc' \in [Threads -> ReaderPC \cup WriterPC]
      /\ pc'[w] = "waiting" /\ \A u \in Threads \ {w} : pc'[u] = pc[u]
  BY <1>0, Moves
<1>4. Types'
  BY <1>0, <1>3, Kinds DEF Types
<1>5. Counts'
  <2>1. Cardinality(registered') = Cardinality(registered) + 1
    BY <1>1, FiniteGroups, FS_AddElement
  <2> QED
    BY <1>0, <1>2, <2>1 DEF Inv, Counts
<1>6. Mutexes'
  BY <1>0, <1>2, <1>3, Kinds DEF Inv, Mutexes
<1>7. Waits'
  BY <1>0, <1>1, <1>3, Kinds DEF Inv, Waits
<1> QED
  BY <1>2, <1>4, <1>5, <1>6, <1>7 DEF Inv

LEMMA WriterLocksInv ==
  ASSUME Inv, NEW w \in Writers, WriterLocks(w)
  PROVE  /\ Inv' /\ reading = {} /\ writing = {}
         /\ writing' = {w} /\ reading' = reading
<1>0. /\ Goto(w, "writing") /\ pc[w] \in {"called", "waiting"}
      /\ (~is_reader_pref => pc[w] = "waiting") /\ lock = Nobody /\ lock' = w
      /\ UNCHANGED <<is_reader_pref, inner, num_readers, num_writers, left>>
      /\ "writing" \in WriterPC /\ Types /\ w \in Threads
  BY Kinds DEF WriterLocks, Inv, WriterPC
<1>1. reading = {} /\ writing = {}
  BY <1>0, Kinds DEF Inv, Mutexes, writing
<1>2. reading' = reading /\ writing' = {w}
        /\ registered' = registered \cup {w} /\ (~is_reader_pref => w \in registered)
  BY <1>0, <1>1, Moves, Kinds DEF reading, registered
<1>3. /\ pc' \in [Threads -> ReaderPC \cup WriterPC]
      /\ pc'[w] = "writing" /\ \A u \in Threads \ {w} : pc'[u] = pc[u]
  BY <1>0, Moves
<1>4. Types'
  BY <1>0, <1>3, Kinds DEF Types
<1>5. Counts'
  <2>1. ~is_reader_pref => registered' = registered
    BY <1>2
  <2> QED
    BY <1>0, <1>2, <2>1 DEF Inv, Counts
<1>6. Mutexes'
  BY <1>0, <1>1, <1>2, <1>3, Kinds DEF Inv, Mutexes
<1>7. Waits'
  BY <1>0, <1>2, <1>3, Kinds DEF Inv, Waits
<1> QED
  BY <1>1, <1>2, <1>4, <1>5, <1>6, <1>7 DEF Inv

LEMMA WriterUnlocksInv ==
  ASSUME Inv, NEW w \in Writers, WriterUnlocks(w)
  PROVE  /\ Inv' /\ w \in writing /\ writing' = writing \ {w}
         /\ reading' = reading
<1>0. /\ Goto(w, "idle") /\ pc[w] \in {"writing", "leaving"}
      /\ (~is_reader_pref => pc[w] = "leaving") /\ lock' = Nobody
      /\ UNCHANGED <<is_reader_pref, inner, num_readers, num_writers, left>>
      /\ "idle" \in WriterPC /\ Types /\ w \in Threads
  BY Kinds DEF WriterUnlocks, Inv, WriterPC
<1>1. w \in writing /\ writing' = writing \ {w}
  BY <1>0, Moves DEF writing
<1>2. reading' = reading /\ registered' = registered \ {w}
        /\ (~is_reader_pref => w \notin registered)
  BY <1>0, Moves, Kinds DEF reading, registered
<1>3. /\ pc' \in [Threads -> ReaderPC \cup WriterPC]
      /\ pc'[w] = "idle" /\ \A u \in Threads \ {w} : pc'[u] = pc[u]
  BY <1>0, Moves
<1>4. Types'
  BY <1>0, <1>3, Kinds DEF Types
<1>5. ~is_reader_pref => registered' = registered
  BY <1>2
<1>6. Counts'
  BY <1>0, <1>2, <1>5 DEF Inv, Counts
<1>7. lock = w /\ writing = {w} /\ reading = {}
  BY <1>1, Kinds DEF Inv, Mutexes
<1>8. Mutexes'
  BY <1>0, <1>1, <1>2, <1>3, <1>5, <1>7, Kinds DEF Inv, Mutexes
<1>9. Waits'
  BY <1>0, <1>3, <1>5, Kinds DEF Inv, Waits
<1> QED
  BY <1>1, <1>2, <1>4, <1>6, <1>8, <1>9 DEF Inv

(* The writer that leaves wakes the readers if it is the last one. *)
LEMMA WriterLeavesInv ==
  ASSUME Inv, NEW w \in Writers, WriterLeaves(w)
  PROVE  Inv' /\ UNCHANGED <<reading, writing>>
<1>0. /\ pc[w] = "writing" /\ inner = Nobody /\ ~is_reader_pref
      /\ num_writers' = num_writers - 1
      /\ UNCHANGED <<is_reader_pref, lock, inner, num_readers, left>>
      /\ Types /\ w \in Threads
  BY Kinds DEF WriterLeaves, Uncounted, Inv
<1>1. /\ pc'[w] = "leaving"
      /\ \A u \in Threads \ {w} :
           \/ pc'[u] = pc[u] /\ ~(u \in Readers /\ num_writers - 1 = 0 /\ pc[u] = "cond")
           \/ pc'[u] = "called" /\ u \in Readers /\ num_writers - 1 = 0 /\ pc[u] = "cond"
  BY <1>0 DEF WriterLeaves, Uncounted, Woken
<1>2. /\ pc' \in [Threads -> ReaderPC \cup WriterPC]
      /\ \A r \in Readers : pc'[r] \in ReaderPC
      /\ \A v \in Writers : pc'[v] \in WriterPC
  BY <1>0, <1>1, Kinds DEF WriterLeaves, Types, ReaderPC, WriterPC
<1>3. UNCHANGED <<reading, writing>>
  BY <1>0, <1>1, Kinds DEF reading, writing
<1>4. w \in registered /\ registered' = registered \ {w}
  BY <1>0, <1>1, Kinds DEF registered
<1>5. Types'
  BY <1>0, <1>2 DEF Types
<1>6. Cardinality(registered') = Cardinality(registered) - 1
  BY <1>4, FiniteGroups, FS_RemoveElement
<1>7. Counts'
  BY <1>0, <1>3, <1>6 DEF Inv, Counts
<1>8. Mutexes'
  BY <1>0, <1>1, <1>3, Kinds DEF Inv, Mutexes
<1>9. Waits'
  <2>1. registered' = {} => num_writers - 1 = 0
    BY <1>0, <1>6, FiniteGroups, FS_EmptySet DEF Inv, Counts
  <2>2. \A r \in Readers : pc'[r] = "cond" => num_writers - 1 # 0
    BY <1>1, Kinds
  <2> QED
    BY <1>0, <2>1, <2>2 DEF Waits
<1> QED
  BY <1>3, <1>5, <1>7, <1>8, <1>9 DEF Inv

-----------------------------------------------------------------------------
(* What a step does to those who read and write. *)
LEMMA NextCases ==
  ASSUME [Next]_vars
  PROVE  \/ UNCHANGED vars
         \/ \E r \in Readers :
              \/ Call(r) \/ ReaderWaits(r) \/ ReaderFirst(r) \/ Spurious(r)
              \/ ReaderJoins(r) \/ ReaderLocks(r) \/ ReaderUnlock(r)
         \/ \E w \in Writers :
              \/ Call(w) \/ WriterRegisters(w) \/ WriterLocks(w)
              \/ WriterLeaves(w) \/ WriterUnlocks(w)
  BY DEF Next, ReaderStep, WriterStep

LEMMA StutterInv ==
  ASSUME Inv, UNCHANGED vars
  PROVE  Inv' /\ UNCHANGED <<reading, writing, registered>>
<1>1. UNCHANGED <<reading, writing, registered>>
  BY DEF vars, reading, writing, registered
<1> QED
  BY <1>1 DEF vars, Inv, Types, Counts, Mutexes, Waits

LEMMA NextInv == Inv /\ [Next]_vars => Inv' /\ [RW!Next]_<<reading, writing>>
<1> SUFFICES ASSUME Inv, [Next]_vars
             PROVE  Inv' /\ [RW!Next]_<<reading, writing>>
  OBVIOUS
<1>1. CASE UNCHANGED vars
  BY <1>1, StutterInv
<1>2. ASSUME NEW t \in Threads, Call(t)
      PROVE  Inv' /\ UNCHANGED <<reading, writing>>
  BY <1>2, CallInv
<1>3. ASSUME NEW r \in Readers, ReaderWaits(r) \/ ReaderFirst(r) \/ Spurious(r)
      PROVE  Inv' /\ UNCHANGED <<reading, writing>>
  BY <1>3, ReaderWaitsInv, ReaderFirstInv, SpuriousInv
<1>4. ASSUME NEW r \in Readers, ReaderJoins(r) \/ ReaderLocks(r)
      PROVE  Inv' /\ RW!Next
  <2>1. /\ Inv' /\ reading' = reading \cup {r} /\ r \notin reading
        /\ writing = {} /\ writing' = writing
    BY <1>4, ReaderJoinsInv, ReaderLocksInv
  <2> QED
    BY <2>1, Kinds DEF RW!Next, RW!StartRead
<1>5. ASSUME NEW r \in Readers, ReaderUnlock(r) PROVE Inv' /\ RW!Next
  BY <1>5, ReaderUnlockInv, Kinds DEF RW!Next, RW!EndRead
<1>6. ASSUME NEW w \in Writers, WriterRegisters(w) \/ WriterLeaves(w)
      PROVE  Inv' /\ UNCHANGED <<reading, writing>>
  BY <1>6, WriterRegistersInv, WriterLeavesInv
<1>7. ASSUME NEW w \in Writers, WriterLocks(w) PROVE Inv' /\ RW!Next
  BY <1>7, WriterLocksInv, Kinds DEF RW!Next, RW!StartWrite
<1>8. ASSUME NEW w \in Writers, WriterUnlocks(w) PROVE Inv' /\ RW!Next
  BY <1>8, WriterUnlocksInv, Kinds DEF RW!Next, RW!EndWrite
<1> QED
  BY <1>1, <1>2, <1>3, <1>4, <1>5, <1>6, <1>7, <1>8, NextCases, Kinds

THEOREM Invariance == Spec => []Inv
  BY InitInv, NextInv, PTL DEF Spec

(* Both locks implement the read-write lock.                               *)
THEOREM Refines == Spec => Abstract
<1>1. Init => RW!Init
  BY Kinds DEF Init, RW!Init, reading, writing
<1> QED
  BY <1>1, NextInv, Invariance, PTL DEF Spec, Abstract, RW!Spec

(* The counts are in the range of the threads they count.                  *)
LEMMA TypeCorrect == Inv => TypeOK
<1> SUFFICES ASSUME Inv PROVE TypeOK
  OBVIOUS
<1>1. Cardinality(Readers) \in Nat /\ Cardinality(Writers) \in Nat
  BY FS_CardinalityType, RWLockAssumption DEF RWLockAssumption
<1>2. num_readers \in 0..Cardinality(Readers)
  BY <1>1, FiniteGroups DEF Inv, Counts
<1>3. num_writers \in 0..Cardinality(Writers)
  BY <1>1, FiniteGroups DEF Inv, Counts, Types
<1> QED
  BY <1>2, <1>3 DEF Inv, Types, TypeOK

(* The inner mutex is kept only while nobody reads, and whoever waits for  *)
(* cond_r will be woken by a writer; nothing leaves the range of its type, *)
(* the counts in particular.                                               *)
THEOREM NobodyForgotten == Spec => []Invariants
<1>1. Inv => NoVainWait
  BY DEF Inv, Mutexes, Waits, NoVainWait, registered
<1>2. Inv => Invariants
  BY <1>1, TypeCorrect DEF Invariants
<1> QED
  BY <1>2, Invariance, PTL

(* With rwlock-writer-pref.cpp no reader comes in while a writer waits.    *)
Overtakes(r) == /\ ~is_reader_pref /\ pc[r] # "reading" /\ pc'[r] = "reading"
                /\ registered # {}

LEMMA NoOvertaking ==
  ASSUME Inv, [Next]_vars, NEW q \in Readers
  PROVE  ~Overtakes(q)
<1> SUFFICES ASSUME Overtakes(q) PROVE FALSE
  OBVIOUS
<1>1. q \in reading' /\ q \notin reading
  BY DEF Overtakes, reading
<1>2. PICK r \in Readers : ReaderJoins(r) \/ ReaderLocks(r)
  BY <1>1, NextCases, StutterInv, CallInv, ReaderWaitsInv, ReaderFirstInv,
     SpuriousInv, ReaderUnlockInv, WriterRegistersInv, WriterLocksInv,
     WriterLeavesInv, WriterUnlocksInv, Kinds
<1> QED
  BY <1>2, ReaderJoinsInv, ReaderLocksInv DEF Overtakes

THEOREM PrefersWriters == Spec => WriterPreference
<1>1. ASSUME Inv, [Next]_vars
      PROVE  [\A r \in Readers :
                ~is_reader_pref /\ pc[r] # "reading" /\ pc'[r] = "reading" =>
                  \A w \in Writers : pc[w] \notin {"waiting", "writing"}]_vars
  BY <1>1, NoOvertaking DEF Overtakes, registered
<1> QED
  BY <1>1, Invariance, PTL DEF Spec, WriterPreference
=============================================================================
