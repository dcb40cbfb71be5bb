--------------------------- MODULE PrivateMemory ----------------------------
(***************************************************************************)
(* What fork and sbrk promise, whether pages are copied at once or not:    *)
(* each process has a memory of its own.  The child's starts as a copy of  *)
(* the parent's, and from then on only a process changes its own memory.   *)
(***************************************************************************)
EXTENDS Naturals, Sequences

CONSTANTS Procs, Data, Zero, NoMemory, MaxPages

VARIABLES
  vm,        (* the pages of each process, or NoMemory                      *)
  excused    (* TRUE: nothing is promised any more                          *)

Init == excused = FALSE /\ \E p \in Procs :
          vm = [q \in Procs |-> IF q = p THEN <<Zero>> ELSE NoMemory]

Has(p) == vm[p] # NoMemory

Fork(p, c) == /\ Has(p) /\ ~Has(c)
              /\ vm' = [vm EXCEPT ![c] = vm[p]]

Write(p, i, d) == /\ Has(p) /\ i \in 1..Len(vm[p])
                  /\ vm' = [vm EXCEPT ![p] = [@ EXCEPT ![i] = d]]

Grow(p) == /\ Has(p)
           /\ vm' = [vm EXCEPT ![p] = Append(@, Zero)]

Shrink(p, n) == /\ Has(p) /\ n < Len(vm[p])
                /\ vm' = [vm EXCEPT ![p] = SubSeq(@, 1, n)]

Exit(p) == /\ Has(p)
           /\ vm' = [vm EXCEPT ![p] = NoMemory]

Promised ==
  \E p \in Procs : \/ Grow(p) \/ Exit(p)
                   \/ \E c \in Procs : Fork(p, c)
                   \/ \E i \in 1..MaxPages, d \in Data : Write(p, i, d)
                   \/ \E n \in 1..MaxPages : Shrink(p, n)

Next == excused' \/ (Promised /\ UNCHANGED excused)

Spec == Init /\ [][Next]_<<vm, excused>>
=============================================================================
