------------------------------ MODULE Requests ------------------------------
(***************************************************************************)
(* What the master-worker program promises (check.awk): when it ends every *)
(* one of the requests 0 .. Total - 1 has been produced once and consumed  *)
(* once, and none is consumed that was not produced before.                *)
(***************************************************************************)
EXTENDS Naturals

VARIABLES total, produced, consumed, freed

Items == 0..(total - 1)

Init == /\ total \in Nat
        /\ produced = [i \in Items |-> 0]
        /\ consumed = [i \in Items |-> 0]
        /\ freed = FALSE

Produce(i) == /\ produced[i] = 0
              /\ produced' = [produced EXCEPT ![i] = 1]
              /\ UNCHANGED <<total, consumed, freed>>

Consume(i) == /\ produced[i] = 1 /\ consumed[i] = 0
              /\ consumed' = [consumed EXCEPT ![i] = 1]
              /\ UNCHANGED <<total, produced, freed>>

Finish == /\ \A i \in Items : produced[i] = 1 /\ consumed[i] = 1
          /\ freed' = TRUE
          /\ UNCHANGED <<total, produced, consumed>>

Next == Finish \/ \E i \in Items : Produce(i) \/ Consume(i)

Spec == Init /\ [][Next]_<<total, produced, consumed, freed>>

=============================================================================
