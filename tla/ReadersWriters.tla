--------------------------- MODULE ReadersWriters ---------------------------
(***************************************************************************)
(* What a read-write lock promises: readers share it, a writer has it for  *)
(* itself.                                                                 *)
(***************************************************************************)
CONSTANT Threads

VARIABLES reading, writing

Init == reading = {} /\ writing = {}

StartRead(t) == /\ writing = {} /\ t \notin reading
                /\ reading' = reading \cup {t}
                /\ UNCHANGED writing

EndRead(t) == /\ t \in reading
              /\ reading' = reading \ {t}
              /\ UNCHANGED writing

StartWrite(t) == /\ reading = {} /\ writing = {}
                 /\ writing' = {t}
                 /\ UNCHANGED reading

EndWrite(t) == /\ t \in writing
               /\ writing' = writing \ {t}
               /\ UNCHANGED reading

Next == \E t \in Threads :
          StartRead(t) \/ EndRead(t) \/ StartWrite(t) \/ EndWrite(t)

Spec == Init /\ [][Next]_<<reading, writing>>

=============================================================================
