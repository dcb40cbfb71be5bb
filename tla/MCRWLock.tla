------------------------------ MODULE MCRWLock ------------------------------
(* Three readers and two writers, each of which takes the lock twice.      *)
EXTENDS RWLock

CONSTANTS r1, r2, r3, w1, w2, none

ThreeReaders == {r1, r2, r3}
TwoWriters == {w1, w2}
=============================================================================
