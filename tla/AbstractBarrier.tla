--------------------------- MODULE AbstractBarrier ---------------------------
(***************************************************************************)
(* What a barrier promises: the members of a group leave it only when all  *)
(* of them have come.  The next group may start when the last one is       *)
(* through.                                                                *)
(***************************************************************************)
CONSTANT Procs

VARIABLES group, come, through

Init == /\ group = {}
        /\ come = {}
        /\ through = {}

Start == /\ through = group
         /\ group' \in SUBSET Procs
         /\ come' = {}
         /\ through' = {}

Come(p) == /\ p \in group \ come
           /\ come' = come \cup {p}
           /\ UNCHANGED <<group, through>>

(* The last one to come may go on at once. *)
ComeAndLeave(p) == /\ p \in group \ come
                   /\ come' = come \cup {p}
                   /\ come' = group
                   /\ through' = through \cup {p}
                   /\ UNCHANGED group

Leave(p) == /\ come = group
            /\ p \in group
            /\ through' = through \cup {p}
            /\ UNCHANGED <<group, come>>

Next == Start \/ \E p \in Procs : Come(p) \/ ComeAndLeave(p) \/ Leave(p)

Spec == Init /\ [][Next]_<<group, come, through>>

=============================================================================
