------------------------------ MODULE ZemTests -------------------------------
(***************************************************************************)
(* The programs test-toggle.c and test-zem.c on top of zemaphore.c: every  *)
(* thread goes through a sequence of calls of zem_down and zem_up, and main*)
(* creates and joins the others.                                           *)
(***************************************************************************)
EXTENDS Zemaphore, Sequences

CONSTANTS
  Main,
  Programs    (* for each test, the calls of each thread, in order          *)

Ops == [op : {"zem_down", "zem_up"}, s : Sems]
         \cup [op : {"pthread_create", "pthread_join"}, t : Callers]

ASSUME ZemTestsAssumption ==
  /\ Main \in Callers
  /\ \A p \in DOMAIN Programs : Programs[p] \in [Callers -> Seq(Ops)]

VARIABLES
  test,       (* the program that runs                                      *)
  created,    (* the threads that were created                              *)
  ip          (* the call each thread is at                                 *)

tvars == <<zvars, test, created, ip>>

Program == Programs[test]

TestInit == /\ ZInit
            /\ test \in DOMAIN Programs
            /\ created = {Main}
            /\ ip = [t \in Callers |-> 1]

Finished(t) == t \in created /\ ip[t] > Len(Program[t])
Op(t) == Program[t][ip[t]]

(* The thread is about to make this call. *)
Calls(t, op) ==
  /\ t \in created /\ ~Finished(t)
  /\ \A s \in Sems : ~InDown(s, t)
  /\ Op(t).op = op

Advance(t) == ip' = [ip EXCEPT ![t] = @ + 1]

Down(t) ==
  /\ Calls(t, "zem_down")
  /\ \/ DownPasses(Op(t).s) /\ Advance(t)
     \/ DownWaits(Op(t).s, t) /\ UNCHANGED ip
  /\ UNCHANGED <<test, created>>

Returns(t) ==
  /\ \E s \in Sems : DownReturns(s, t)
  /\ Advance(t)
  /\ UNCHANGED <<test, created>>

Wakes(t) ==
  /\ \E s \in Sems : ZSpurious(s, t)
  /\ UNCHANGED <<test, created, ip>>

Up(t) ==
  /\ Calls(t, "zem_up")
  /\ zem_up(Op(t).s)
  /\ Advance(t)
  /\ UNCHANGED <<test, created>>

Create(t) ==
  /\ Calls(t, "pthread_create")
  /\ created' = created \cup {Op(t).t}
  /\ Advance(t)
  /\ UNCHANGED <<zvars, test>>

Join(t) ==
  /\ Calls(t, "pthread_join")
  /\ Finished(Op(t).t)
  /\ Advance(t)
  /\ UNCHANGED <<zvars, test, created>>

Step(t) == Down(t) \/ Returns(t) \/ Up(t) \/ Create(t) \/ Join(t)

TestNext == \E t \in Callers : Step(t) \/ Wakes(t)

TestSpec == TestInit /\ [][TestNext]_tvars

(* The programs are finite and nobody keeps a mutex for long: a thread that*)
(* can go on does so.  Spurious wakeups need not happen.                   *)
TestFairSpec == TestSpec /\ \A t \in Callers : WF_tvars(Step(t))

-----------------------------------------------------------------------------
(* Everybody who was created, main first of all, gets to the end of its    *)
(* program, when every wait that returned was signalled.                   *)
TestEnds == <>(excused \/ \A t \in created : Finished(t))

=============================================================================
