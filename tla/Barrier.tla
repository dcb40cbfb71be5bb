------------------------------ MODULE Barrier --------------------------------
(***************************************************************************)
(* The barrier system calls of xv6-threads (barrier.c), as programs like   *)
(* t_barrier use them: barrier_init(n), then n processes call              *)
(* barrier_check once each; the barrier is initialised again only after    *)
(* all of them are through.                                                *)
(*                                                                         *)
(* The barrier's spin lock is held from the start of barrier_check to its  *)
(* end or to the sleep, which gives it back and marks the process asleep   *)
(* in one step; each part is one action.  A process that was woken comes   *)
(* back from sleep when it gets the lock.                                  *)
(***************************************************************************)
EXTENDS Integers, FiniteSets

CONSTANTS
  Procs,
  MaxUses,    (* bound: how often barrier_init is called                    *)
  MayKill     (* may a process be killed while it sleeps at the barrier?    *)

ASSUME BarrierAssumption ==
  /\ IsFiniteSet(Procs)
  /\ MaxUses \in Nat
  /\ MayKill \in BOOLEAN

VARIABLES
  cur_num, tot_num,
  group,      (* the processes that call barrier_check in this use          *)
  pc,         (* where each of them is                                      *)
  uses        (* the number of calls of barrier_init                        *)

bvars == <<cur_num, tot_num, group, pc, uses>>

(* "killed" is a process that was woken by a kill, "dead" one that went on *)
(* to its exit.                                                            *)
BPlaces == {"outside", "asleep", "awake", "killed", "clear", "dead"}

BTypeOK ==
  /\ cur_num \in Nat
  /\ tot_num \in Nat
  /\ group \in SUBSET Procs
  /\ pc \in [Procs -> BPlaces]
  /\ uses \in Nat

At(place) == {p \in Procs : pc[p] = place}
BInside   == At("asleep") \cup At("awake") \cup At("killed")

(* The variables of barrier.c are zero before the first call. *)
BInit ==
  /\ cur_num = 0
  /\ tot_num = 0
  /\ group = {}
  /\ pc = [p \in Procs |-> "outside"]
  /\ uses = 0

barrier_init(G) ==
  /\ uses < MaxUses
  /\ group \subseteq At("clear")
  /\ cur_num' = 0
  /\ tot_num' = Cardinality(G)
  /\ group' = G
  /\ pc' = [p \in Procs |-> "outside"]
  /\ uses' = uses + 1

(* The test of barrier_check, n counts the caller.  Mutant: one too few.   *)
OneShort(n) == n + 1 < tot_num
MustSleep(n) == n < tot_num

(* Whom the last one wakes.  Mutant: one of them. *)
OneOf(S) == IF S = {} THEN {} ELSE {CHOOSE p \in S : TRUE}
AllOf(S) == S

(* What the last one does to the count. *)
InAndOut == cur_num' = cur_num + 1 - 1

(* barrier_check up to its sleep, or to its end for the last one.          *)
barrier_check(p) ==
  /\ p \in group /\ pc[p] = "outside"
  /\ IF MustSleep(cur_num + 1)
       THEN /\ cur_num' = cur_num + 1
            /\ pc' = [pc EXCEPT ![p] = "asleep"]
       ELSE /\ pc' = [q \in Procs |-> IF q = p THEN "clear"
                                      ELSE IF q \in AllOf(At("asleep")) THEN "awake"
                                      ELSE pc[q]]
            /\ InAndOut
  /\ UNCHANGED <<tot_num, group, uses>>

(* Mutant: the count stays as it is. *)
StillCounted == cur_num' = cur_num
CountedOut == cur_num' = cur_num - 1

(* sleep has returned; a killed process exits on its way back from the     *)
(* system call.                                                            *)
Leave(p) ==
  /\ \/ pc[p] = "awake"  /\ pc' = [pc EXCEPT ![p] = "clear"]
     \/ pc[p] = "killed" /\ pc' = [pc EXCEPT ![p] = "dead"]
  /\ CountedOut
  /\ UNCHANGED <<tot_num, group, uses>>

(* kill(), in proc.c, makes a sleeper runnable. *)
Kill(p) ==
  /\ MayKill
  /\ pc[p] = "asleep"
  /\ pc' = [pc EXCEPT ![p] = "killed"]
  /\ UNCHANGED <<cur_num, tot_num, group, uses>>

BNext ==
  \/ \E G \in (SUBSET Procs) \ {{}} : barrier_init(G)
  \/ \E p \in Procs : barrier_check(p) \/ Leave(p) \/ Kill(p)

BSpec == BInit /\ [][BNext]_bvars

(* Every process of the group gets to its call, and one that was woken is  *)
(* scheduled and gets the lock, which nobody keeps.                        *)
BFairSpec ==
  BSpec /\ \A p \in Procs : WF_bvars(barrier_check(p)) /\ WF_bvars(Leave(p))

-----------------------------------------------------------------------------
(* Properties *)

(* The count is the number of processes inside, also when one of them is   *)
(* killed and leaves before the others have come.                          *)
CountsInside == cur_num = Cardinality(BInside)

(* What holds in every state. *)
BInvariants == BTypeOK /\ CountsInside

come    == {p \in group : pc[p] # "outside"}
through == {p \in group : pc[p] = "clear"}

B == INSTANCE AbstractBarrier
       WITH group <- group, come <- come, through <- through

(* A process clears the barrier only when all of the group have come:      *)
(* "Child 1 cleared barrier" of t_barrier comes after all three lines "at  *)
(* barrier".  A process killed while it waits does not let the others pass *)
(* without it.                                                             *)
Abstract == B!Spec

(* Everybody clears the barrier, unless somebody is killed in it. *)
EverybodyClears ==
  \A p \in Procs :
    p \in group ~> pc[p] = "clear" \/ At("killed") \cup At("dead") # {}

=============================================================================
