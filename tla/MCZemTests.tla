----------------------------- MODULE MCZemTests ------------------------------
(* test-toggle.c for any number of threads and rounds, and test-zem.c,     *)
(* where the semaphores 0 and 1 are child and parent.  The threads are     *)
(* numbered as in the programs, and main has the next number.              *)
EXTENDS ZemTests

CONSTANTS NUM_THREADS, NUM_ITER    (* the #defines of test-toggle.c *)

ASSUME NumAssumption == NUM_THREADS \in Nat \ {0, 1} /\ NUM_ITER \in Nat

TestSems    == 0..(NUM_THREADS - 1)
TestThreads == 0..NUM_THREADS
TestMain    == NUM_THREADS
Zero        == [s \in TestSems |-> 0]

D(i) == [op |-> "zem_down", s |-> i]
U(i) == [op |-> "zem_up", s |-> i]
New(i) == [op |-> "pthread_create", t |-> i]
J(i) == [op |-> "pthread_join", t |-> i]

justprint(i) ==
  [k \in 1..(2 * NUM_ITER) |-> IF k % 2 = 1 THEN D(i) ELSE U((i + 1) % NUM_THREADS)]

ToggleMain ==
  [k \in 1..(2 * NUM_THREADS + 1) |->
     IF k = 1 THEN U(0)
     ELSE IF k <= NUM_THREADS + 1 THEN New(k - 2) ELSE J(k - 2 - NUM_THREADS)]

Toggle == [t \in TestThreads |-> IF t = TestMain THEN ToggleMain ELSE justprint(t)]

Zem ==
  [t \in TestThreads |->
     CASE t = TestMain -> <<New(0), New(1), U(0), D(1), U(0), D(1), J(0), J(1)>>
       [] t \in {0, 1} -> <<D(0), U(1)>>
       [] OTHER        -> <<>>]

Tests == [toggle |-> Toggle, zem |-> Zem]

(* The lines a thread has printed: one after each zem_down.                *)
Lines(t) == Cardinality({i \in 1..(ip[t] - 1) : Program[t][i].op = "zem_down"})

(* test-toggle.c: the threads print in turn, thread 0 first. *)
InTurn ==
  test = "toggle" /\ ~excused =>
    /\ \A t \in TestSems : t > 0 => Lines(t) <= Lines(t - 1)
    /\ Lines(0) <= Lines(NUM_THREADS - 1) + 1

(* test-zem.c: "This should print first", "One thread has printed", "Second*)
(* thread has printed" come when they are true.                            *)
WhenTrue ==
  test = "zem" /\ ~excused =>
    /\ ip[TestMain] <= 3 => Lines(0) + Lines(1) = 0
    /\ ip[TestMain] = 5  => Lines(0) + Lines(1) = 1
    /\ ip[TestMain] = 7  => Lines(0) + Lines(1) = 2

(* Both programs print their lines in the order they announce.             *)
PrintOrder == InTurn /\ WhenTrue
=============================================================================
