------------------------------ MODULE Semaphore ------------------------------
(***************************************************************************)
(* What a set of counting semaphores promises: nobody is let through for   *)
(* whom there was neither an initial unit nor an up.  A wait that returns  *)
(* although nobody signalled excuses the implementation.                   *)
(***************************************************************************)
EXTENDS Naturals

CONSTANTS Sems, Units

VARIABLES ups, downs, excused

Init == /\ ups = [s \in Sems |-> 0]
        /\ downs = [s \in Sems |-> 0]
        /\ excused = FALSE

Up(s) == /\ ups' = [ups EXCEPT ![s] = @ + 1]
         /\ UNCHANGED <<downs, excused>>

Down(s) == /\ excused \/ downs[s] < Units[s] + ups[s]
           /\ downs' = [downs EXCEPT ![s] = @ + 1]
           /\ UNCHANGED <<ups, excused>>

Excuse == excused' = TRUE /\ UNCHANGED <<ups, downs>>

Next == Excuse \/ \E s \in Sems : Up(s) \/ Down(s)

Spec == Init /\ [][Next]_<<ups, downs, excused>>

=============================================================================
