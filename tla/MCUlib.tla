------------------------------- MODULE MCUlib --------------------------------
(* The tests of ulib.c as instances of Ulib.                               *)
EXTENDS Ulib

CONSTANT Rounds    (* of the loops of t_l_cv2.c *)

ASSUME RoundsAssumption == Rounds \in Nat

D(s) == [op |-> "semDown", m |-> s]
U(s) == [op |-> "semUp", m |-> s]
Acq(l) == [op |-> "acquireLock", m |-> l]
Rel(l) == [op |-> "releaseLock", m |-> l]
CV(l) == [op |-> "condWait", m |-> l]
BC(l) == [op |-> "broadcast", m |-> l]
Whl(v) == [op |-> "while", m |-> "s1", v |-> v]
Put(v) == [op |-> "set", v |-> v]
New(t) == [op |-> "thread_create", t |-> t]
Join(t) == [op |-> "thread_join", t |-> t]

Init0(m, v) == [op |-> "semInit", m |-> m, v |-> v]

TestThreads == {"main", "a", "b", "c"}
Joins == <<Join("a"), Join("b"), Join("c")>>

(* t_sem1.c with two more threads and more rounds: main holds the          *)
(* semaphore while it creates them.                                        *)
Sem1 == [main |-> <<Init0("s1", 1), D("s1"), New("a"), New("b"), New("c"),
                    U("s1"), D("s1"), U("s1")>> \o Joins,
         a    |-> <<D("s1"), U("s1"), D("s1"), U("s1")>>,
         b    |-> <<D("s1"), U("s1")>>,
         c    |-> <<D("s1"), U("s1")>>]

(* t_sem2.c: a and b are its threads 1 and 2, c is thread 3. *)
Sem2 == [main |-> <<Init0("s1", 0), Init0("s2", 0),
                    New("a"), New("b"), New("c")>> \o Joins,
         a    |-> <<D("s1"), U("s2")>>,
         b    |-> <<D("s1"), U("s2")>>,
         c    |-> <<U("s1"), D("s2"), U("s1"), D("s2")>>]

(* t_l_cv2.c, a and b are toggle1 and toggle2, and beside it t_l_cv1.c on *)
(* a second monitor, c is its thread2.                                     *)
Toggle(wait, put) ==
  [k \in 1..(3 * Rounds + 2) |->
     CASE k = 1              -> Acq("s1")
       [] k = 3 * Rounds + 2 -> Rel("s1")
       [] OTHER              -> IF k % 3 = 2 THEN Whl(wait)
                                ELSE IF k % 3 = 0 THEN Put(put) ELSE BC("s1")]
Cv == [main |-> <<Acq("s2"), New("a"), New("b"), New("c"),
                  CV("s2"), Rel("s2")>> \o Joins,
       a    |-> Toggle(1, 1),
       b    |-> Toggle(0, 0),
       c    |-> <<Acq("s2"), BC("s2"), Rel("s2")>>]

Tests  == [t_sem1 |-> Sem1, t_sem2 |-> Sem2, t_l_cv |-> Cv]
Bit == {0, 1}

-----------------------------------------------------------------------------
(* Threads 1 and 2 of t_sem2 that have passed their semDown, and print.    *)
Printed == {t \in {"a", "b"} : ip[t] > 1}

(* The three lines thread 3 of t_sem2 prints come when they are true: "I   *)
(* should print first", "Only one other thread has printed by now", "Both  *)
(* the other threads have printed by now".                                 *)
Sem2Order ==
  test = "t_sem2" =>
    /\ ip["c"] = 1 /\ at["c"] \in {"unborn", "client"} => Printed = {}
    /\ ip["c"] = 3 /\ at["c"] = "client" => Cardinality(Printed) = 1
    /\ ip["c"] = 5 => Cardinality(Printed) = 2

(* t_l_cv2: the threads print in turn, thread 1 first.  A line is printed  *)
(* when the thread has left its while.                                     *)
Lines(t) == Cardinality({i \in 1..(ip[t] - 1) : Program[t][i].op = "while"})
Alternate ==
  test = "t_l_cv" => Lines("b") <= Lines("a") /\ Lines("a") <= Lines("b") + 1

(* The tests print their lines in the order they announce.                 *)
PrintOrder == Sem2Order /\ Alternate
=============================================================================
