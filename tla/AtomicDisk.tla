----------------------------- MODULE AtomicDisk -----------------------------
(***************************************************************************)
(* What the log promises to the system calls that write to the disk: what  *)
(* a crash leaves is the disk as it was at some moment when no system call *)
(* was between its begin_op and its end_op.  So a system call is never     *)
(* found half done, whatever the order of the writes and of the crashes.   *)
(***************************************************************************)
CONSTANTS Procs, Blocks, Data

VARIABLES
  now,     (* what the system calls read and write                         *)
  stable,  (* what would be there after a crash                            *)
  open     (* the processes between begin_op and end_op                    *)

vars == <<now, stable, open>>

Init == /\ now \in [Blocks -> Data]
        /\ stable = now
        /\ open = {}

Begin(p) == /\ p \notin open
            /\ open' = open \cup {p}
            /\ UNCHANGED <<now, stable>>

Write(p, b, d) == /\ p \in open
                  /\ now' = [now EXCEPT ![b] = d]
                  /\ UNCHANGED <<stable, open>>

End(p) == /\ p \in open
          /\ open' = open \ {p}
          /\ UNCHANGED <<now, stable>>

Commit == /\ open = {}
          /\ stable' = now
          /\ UNCHANGED <<now, open>>

Crash == /\ now' = stable
         /\ open' = {}
         /\ UNCHANGED stable

Next == \/ \E p \in Procs : Begin(p) \/ End(p)
        \/ \E p \in Procs, b \in Blocks, d \in Data : Write(p, b, d)
        \/ Commit
        \/ Crash

Spec == Init /\ [][Next]_vars
=============================================================================
