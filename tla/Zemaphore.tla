------------------------------ MODULE Zemaphore ------------------------------
(***************************************************************************)
(* The semaphores of the pthread lab (zemaphore.c): a value, a mutex and a *)
(* condition variable.  zem_down decrements first and then waits once if   *)
(* the value is negative.                                                  *)
(*                                                                         *)
(* The mutex is held from the start of each function to its end or to the  *)
(* pthread_cond_wait, which gives it back and waits in one step; each part *)
(* is one action.  pthread_cond_signal unblocks one waiter, which returns  *)
(* when it gets the mutex.  POSIX lets pthread_cond_wait return without a  *)
(* signal: ZSpurious.                                                      *)
(***************************************************************************)
EXTENDS Integers, FiniteSets

CONSTANTS
  Sems,
  Callers,
  Units       (* the value zem_init is called with                          *)

ASSUME ZemaphoreAssumption ==
  /\ IsFiniteSet(Callers)
  /\ Units \in [Sems -> Nat]

VARIABLES
  value,      (* s->value                                                   *)
  cond,       (* the threads that wait on s->cond                           *)
  woken,      (* those that were unblocked and wait for the mutex           *)
  ups,        (* history: the number of calls of zem_up ...                 *)
  downs,      (* ... and of returns from zem_down                           *)
  excused     (* history: a wait has returned without a signal              *)

zvars == <<value, cond, woken, ups, downs, excused>>

ZTypeOK ==
  /\ value \in [Sems -> Int]
  /\ cond \in [Sems -> SUBSET Callers]
  /\ woken \in [Sems -> SUBSET Callers]
  /\ ups \in [Sems -> Nat]
  /\ downs \in [Sems -> Nat]
  /\ excused \in BOOLEAN
  /\ \A s \in Sems : cond[s] \cap woken[s] = {}

(* zem_init *)
ZInit ==
  /\ value = Units
  /\ cond = [s \in Sems |-> {}]
  /\ woken = [s \in Sems |-> {}]
  /\ ups = [s \in Sems |-> 0]
  /\ downs = [s \in Sems |-> 0]
  /\ excused = FALSE

InDown(s, t) == t \in cond[s] \cup woken[s]

-----------------------------------------------------------------------------
(* The test of zem_down, after its decrement.  Mutant: the value is tested *)
(* before it.                                                              *)
TakesOneMore(v) == v < -1
MustWait(v) == v < 0

(* zem_down that finds a unit, and returns. *)
DownPasses(s) ==
  /\ ~MustWait(value[s] - 1)
  /\ value' = [value EXCEPT ![s] = @ - 1]
  /\ downs' = [downs EXCEPT ![s] = @ + 1]
  /\ UNCHANGED <<cond, woken, ups, excused>>

(* zem_down up to its pthread_cond_wait. *)
DownWaits(s, t) ==
  /\ MustWait(value[s] - 1)
  /\ value' = [value EXCEPT ![s] = @ - 1]
  /\ cond' = [cond EXCEPT ![s] = @ \cup {t}]
  /\ UNCHANGED <<woken, ups, downs, excused>>

(* pthread_cond_wait and zem_down return. *)
DownReturns(s, t) ==
  /\ t \in woken[s]
  /\ woken' = [woken EXCEPT ![s] = @ \ {t}]
  /\ downs' = [downs EXCEPT ![s] = @ + 1]
  /\ UNCHANGED <<value, cond, ups, excused>>

(* Whom pthread_cond_signal unblocks.  Mutants: pthread_cond_broadcast; a  *)
(* signal that is sent for positive values only.                           *)
Everybody(s) == {cond[s]}
OnlyIfPositive(s) == IF value[s] + 1 > 0 /\ cond[s] # {}
                       THEN {{t} : t \in cond[s]} ELSE {{}}
OneWaiter(s) == IF cond[s] = {} THEN {{}} ELSE {{t} : t \in cond[s]}

Dequeued(s, W) == [cond EXCEPT ![s] = @ \ W]

zem_up(s) ==
  /\ value' = [value EXCEPT ![s] = @ + 1]
  /\ ups' = [ups EXCEPT ![s] = @ + 1]
  /\ \E W \in OneWaiter(s) :
       /\ cond' = Dequeued(s, W)
       /\ woken' = [woken EXCEPT ![s] = @ \cup W]
  /\ UNCHANGED <<downs, excused>>

ZSpurious(s, t) ==
  /\ t \in cond[s]
  /\ cond' = [cond EXCEPT ![s] = @ \ {t}]
  /\ woken' = [woken EXCEPT ![s] = @ \cup {t}]
  /\ excused' = TRUE
  /\ UNCHANGED <<value, ups, downs>>

-----------------------------------------------------------------------------
(* Threads that call zem_down and zem_up as they please; one that is in    *)
(* zem_down does not call it again.                                        *)

ZNext ==
  \E s \in Sems :
    \/ zem_up(s)
    \/ DownPasses(s)
    \/ \E t \in Callers : \/ ~InDown(s, t) /\ DownWaits(s, t)
                          \/ DownReturns(s, t)
                          \/ ZSpurious(s, t)

ZSpec == ZInit /\ [][ZNext]_zvars

-----------------------------------------------------------------------------
(* Properties *)

Positive(n) == IF n > 0 THEN n ELSE 0

(* A negative value is the number of threads that wait: nobody waits at a  *)
(* semaphore that has a unit for it, and no zem_up goes unnoticed.         *)
WaitersCounted ==
  ~excused => \A s \in Sems : Cardinality(cond[s]) = Positive(-value[s])

(* What holds in every state. *)
ZInvariants == ZTypeOK /\ WaitersCounted

(* zemaphore.c implements counting semaphores: as long as every wait that  *)
(* returned was signalled, zem_down lets nobody through without a unit,    *)
(* although it does not look at the value again after its wait.            *)
S == INSTANCE Semaphore WITH ups <- ups, downs <- downs, excused <- excused

ZAbstract == S!Spec

=============================================================================
